---- MODULE Spec2Model ----
(***************************************************************************)
(* SentinelPay: the risk-scoring engine (SentinelEngine.evaluate and its   *)
(* evaluators, detectors and trackers) and the hash-chained ledger         *)
(* (ImmutableLedger), as state machines.                                   *)
(*                                                                         *)
(* Conventions.                                                            *)
(*  - A JavaScript string that the code builds, compares or hashes is a    *)
(*    sequence of one-character strings; "" is << >>.                      *)
(*  - An optional value (lastTx, merchant_category) is a sequence of       *)
(*    length 0 or 1.                                                       *)
(*  - A reasoning string is the pair << code, text >>: the text            *)
(*    code ++ ": " ++ text when code # "", and text alone otherwise.       *)
(*  - Multipliers are kept as integer ratios, so that Math.floor(x * m)    *)
(*    is integer division (exact for the doubles 1.1, 1.2 and 1.25 over    *)
(*    the integer scores the evaluators produce).                          *)
(***************************************************************************)
EXTENDS Integers, Sequences, FiniteSets, TLC

VARIABLES
    workload,            \* which driver feeds the objects (input class)
    nCalls,              \* number of operations the driver has issued
    \* SentinelEngine (src/unnamed/part_000)
    transactionHistory,  \* SentinelEngine.transactionHistory
    events,              \* CoordinatedAttackDetector.events
    escalation,          \* EscalationTracker.state : user_id -> stepUpTimestamps
    latencyBuffer,       \* RollingLatencyBuffer.buffer
    result,              \* the FinalRiskResult returned by the last evaluate
    call,                \* the arguments of the last evaluate, and the state it saw
    log,                 \* every evaluate call so far: its arguments and its decision
    twin,                \* a second SentinelEngine, fed the same calls
    \* SentinelEngine (src/src/engine/SentinelEngine.ts)
    v1History,           \* SentinelEngine.transactionHistory
    v1Result,            \* the FinalRiskResult returned by the last evaluate
    \* ImmutableLedger (src/src/engine/ImmutableLedger.ts)
    chain,               \* ImmutableLedger.chain
    ledgerRet,           \* what the last ledger operation returned
    appended,            \* the results submitted to successful appends, in order
    tampered,            \* the outstanding in-place mutation made through getChain()
    nTampers,            \* number of in-place mutations made so far
    obtained             \* what getChain() returned to its caller, as it was then

engineVars == << transactionHistory, events, escalation, latencyBuffer, result, call, log, twin >>
v1Vars     == << v1History, v1Result >>
ledgerVars == << chain, ledgerRet, appended, tampered, nTampers, obtained >>
vars       == << workload, nCalls, engineVars, v1Vars, ledgerVars >>

----------------------------------------------------------------------------
(* Generic helpers *)

Min(a, b) == IF a < b THEN a ELSE b
Max(a, b) == IF a > b THEN a ELSE b
Range(s)  == { s[i] : i \in 1..Len(s) }
Last(s)   == s[Len(s)]

\* Array.prototype.slice(-n)
SliceLastMut(s, n) == IF Len(s) > n THEN SubSeq(s, 1, n) ELSE s
SliceLast(s, n) == IF Len(s) > n THEN SubSeq(s, Len(s) - n + 1, Len(s)) ELSE s

RECURSIVE SumSeq(_)
SumSeq(s) == IF s = << >> THEN 0 ELSE Head(s) + SumSeq(Tail(s))

----------------------------------------------------------------------------
(* Constants of src/unnamed/part_000 *)

THRESHOLD_PASS  == 40
THRESHOLD_BLOCK == 70

MAX_LATENCY_MS == 200
LATENCY_WINDOW == 10

COORD_WINDOW_MS           == 2 * 60 * 1000
COORD_MIN_USERS           == 5
COORD_AMOUNT_VARIANCE_PCT == 5      \* 0.05
COORD_MULTIPLIER_PCT      == 125    \* 1.25
COORD_EVENT_CAP           == 5000

ESC_WINDOW_MS   == 15 * 60 * 1000
ESC_MIN_STEPUPS == 3
ESC_RISK_THRESH == 60

HISTORY_CAP == 1000

\* dist / diffHrs > MAX_SPEED_KMH, with dist in metres and the difference in
\* milliseconds: dist_m / 1000 * 3600000 / diff_ms > 800  <=>  dist_m * 9 > 2 * diff_ms
MAX_SPEED_KMH == 800

----------------------------------------------------------------------------
(* haversine: great-circle distance, in metres, between the coordinates the
   drivers use (latitude and longitude in 1e-4 degrees).  The trigonometry is
   tabulated: 1148.0948730375999 km between Mumbai (19.0760, 72.8777) and
   Delhi (28.6139, 77.2090). *)

Mumbai == [lat |-> 190760, lon |-> 728777, city |-> "Mumbai"]
Delhi  == [lat |-> 286139, lon |-> 772090, city |-> "Delhi"]

haversine(lat1, lon1, lat2, lon2) ==
    IF lat1 = lat2 /\ lon1 = lon2 THEN 0 ELSE 1148095

clampToMut(v, min, max) == Max(min, v)
clampTo(v, min, max) == Min(max, Max(min, v))

clampMut(v) == Min(100 + v, Max(0, v))
clamp(v) == clampTo(v, 0, 100)

----------------------------------------------------------------------------
(* RollingLatencyBuffer *)

LatencyRecordMut(buffer, ms) ==
    LET pushed == Append(buffer, ms)
    IN  IF Len(pushed) > LATENCY_WINDOW THEN SubSeq(pushed, 1, LATENCY_WINDOW) ELSE pushed

LatencyRecord(buffer, ms) ==
    LET pushed == Append(buffer, ms)
    IN  IF Len(pushed) > LATENCY_WINDOW THEN Tail(pushed) ELSE pushed

\* average() > MAX_LATENCY_MS, with average() = sum / length (0 when empty)
LatencyIsBreach(buffer) ==
    IF Len(buffer) = 0 THEN FALSE
    ELSE SumSeq(buffer) > MAX_LATENCY_MS * Len(buffer)

----------------------------------------------------------------------------
(* CoordinatedAttackDetector *)

MerchantCategoryOf(tx) ==
    IF Len(tx.merchant_category) = 1 THEN tx.merchant_category[1] ELSE tx.merchant_id

InCoordWindow(e, now) == now - e.timestamp <= COORD_WINDOW_MS

CoordRecordMut(evs, tx) ==
    LET now    == tx.timestamp
        pruned == SelectSeq(evs, LAMBDA e : InCoordWindow(e, now))
    IN  Append(pruned, [user_id           |-> tx.user_id,
                        merchant_category |-> MerchantCategoryOf(tx),
                        amount            |-> tx.amount,
                        timestamp         |-> now])

CoordRecord(evs, tx) ==
    LET now    == tx.timestamp
        pruned == SelectSeq(evs, LAMBDA e : InCoordWindow(e, now))
        pushed == Append(pruned, [user_id           |-> tx.user_id,
                                  merchant_category |-> MerchantCategoryOf(tx),
                                  amount            |-> tx.amount,
                                  timestamp         |-> now])
    IN  SliceLast(pushed, COORD_EVENT_CAP)

\* e.amount >= tx.amount * (1 - 0.05) /\ e.amount <= tx.amount * (1 + 0.05)
CoordCluster(evs, tx) ==
    LET now == tx.timestamp
        cat == MerchantCategoryOf(tx)
    IN  { e \in Range(evs) :
            /\ InCoordWindow(e, now)
            /\ e.merchant_category = cat
            /\ 100 * e.amount >= (100 - COORD_AMOUNT_VARIANCE_PCT) * tx.amount
            /\ 100 * e.amount <= (100 + COORD_AMOUNT_VARIANCE_PCT) * tx.amount }

CoordDetectFour(evs, tx) ==
    Cardinality({ e.user_id : e \in CoordCluster(evs, tx) }) >= COORD_MIN_USERS - 1
CoordDetectMut(evs, tx) ==
    Cardinality({ e.user_id : e \in CoordCluster(evs, tx) }) >= COORD_MIN_USERS + 1
CoordDetect(evs, tx) ==
    Cardinality({ e.user_id : e \in CoordCluster(evs, tx) }) >= COORD_MIN_USERS

----------------------------------------------------------------------------
(* EscalationTracker.  state is a Map: a function whose domain is the set of
   users that have an entry; get() creates the entry of a user that has none. *)

EmptyMap == [u \in {} |-> << >>]

EscGet(state, userId) ==
    IF userId \in DOMAIN state THEN state
    ELSE [u \in (DOMAIN state) \cup {userId} |->
            IF u = userId THEN << >> ELSE state[u]]

EscRecordStepUpMut(state, userId, ts) ==
    LET s == EscGet(state, userId)
    IN  [s EXCEPT ![userId] = << ts >>]

EscRecordStepUp(state, userId, ts) ==
    LET s      == EscGet(state, userId)
        cutoff == ts - ESC_WINDOW_MS
        kept   == SelectSeq(s[userId], LAMBDA t : t > cutoff)
    IN  [s EXCEPT ![userId] = Append(kept, ts)]

EscRecordBlockMut(state, userId) == EscGet(state, userId)
EscRecordBlock(state, userId) ==
    [EscGet(state, userId) EXCEPT ![userId] = << >>]

EscRecent(state, userId, ts) ==
    LET s      == EscGet(state, userId)
        cutoff == ts - ESC_WINDOW_MS
    IN  Len(SelectSeq(s[userId], LAMBDA t : t > cutoff))

shouldForceBlockMut(state, userId, currentScore, ts) ==
    EscRecent(state, userId, ts) >= ESC_MIN_STEPUPS /\ currentScore > ESC_RISK_THRESH
shouldForceBlock(state, userId, currentScore, ts) ==
    EscRecent(state, userId, ts) >= ESC_MIN_STEPUPS /\ currentScore >= ESC_RISK_THRESH

----------------------------------------------------------------------------
(* The six risk evaluators of src/unnamed/part_000.  Each returns
   [score, reasoning] (the behavioural one also the multiplier, in tenths). *)

Reason(code, text) == << code, text >>

\* r.startsWith(code): no reasoning text starts with "ERR_", and no code is a
\* proper prefix of another one
StartsWith(r, code) == r[1] = code

\* seq ++ (IF cond THEN <<r>> ELSE <<>>) : "if (cond) reasons.push(r)"
PushIf(cond, r) == IF cond THEN << r >> ELSE << >>
AddIf(cond, n)  == IF cond THEN n ELSE 0

ImpossibleTravel(tx, lastTx) ==
    LET dist   == haversine(lastTx.location.lat, lastTx.location.lon,
                            tx.location.lat, tx.location.lon)
        diffMs == tx.timestamp - lastTx.timestamp
    IN  diffMs > 0 /\ dist * 9 > 2 * diffMs

GeoRiskEngineMut(tx, profile, lastTx) ==
    LET mismatch == tx.location.city # profile.registered_city
        travel   == Len(lastTx) = 1 /\ ImpossibleTravel(tx, lastTx[1])
    IN  [score     |-> clampTo(AddIf(mismatch, 10) + AddIf(travel, 50), 0, 65),
         reasoning |-> PushIf(mismatch, Reason("ERR_GEO_IMPOSSIBLE", "Location mismatch"))
                       \o PushIf(travel, Reason("ERR_GEO_IMPOSSIBLE", "Impossible travel"))]
GeoRiskEngine(tx, profile, lastTx) ==
    LET mismatch == tx.location.city # profile.registered_city
        travel   == Len(lastTx) = 1 /\ ImpossibleTravel(tx, lastTx[1])
    IN  [score     |-> clampTo(AddIf(mismatch, 10) + AddIf(travel, 55), 0, 65),
         reasoning |-> PushIf(mismatch, Reason("ERR_GEO_IMPOSSIBLE", "Location mismatch"))
                       \o PushIf(travel, Reason("ERR_GEO_IMPOSSIBLE", "Impossible travel"))]

VelocityRiskEngine(tx, recentTxns, profile) ==
    LET tenMinsAgo  == tx.timestamp - 600000
        recentCount == Len(SelectSeq(recentTxns, LAMBDA t : t.timestamp > tenMinsAgo))
        spamCount   == Len(SelectSeq(recentTxns,
                             LAMBDA t : t.timestamp > tenMinsAgo /\ t.amount = 1))
        burst  == recentCount > 5
        spam   == tx.amount = 1 /\ spamCount > 3
        failed == profile.failed_attempts_last_10_min > 3
    IN  [score     |-> clampTo(AddIf(burst, 30) + AddIf(spam, 30) + AddIf(failed, 35), 0, 65),
         reasoning |-> PushIf(burst, Reason("ERR_VELOCITY_LIMIT", "transactions in last 10 min"))
                       \o PushIf(spam, Reason("ERR_VELOCITY_LIMIT", "Rs 1 spam burst detected"))
                       \o PushIf(failed, Reason("ERR_VELOCITY_LIMIT", "failed attempts in 10 min"))]

DeviceRiskEngineMut(tx, profile, distinctDevicesLast5Min) ==
    LET unregistered == tx.device_id # profile.registered_device_id
        switching    == distinctDevicesLast5Min >= 1
    IN  [score     |-> clampTo(AddIf(unregistered, 25) + AddIf(switching, 30), 0, 55),
         reasoning |-> PushIf(unregistered, Reason("ERR_BEHAVIORAL_SHIFT", "Unregistered device"))
                       \o PushIf(switching, Reason("ERR_BEHAVIORAL_SHIFT", "Device switching"))]
DeviceRiskEngine(tx, profile, distinctDevicesLast5Min) ==
    LET unregistered == tx.device_id # profile.registered_device_id
        switching    == distinctDevicesLast5Min > 1
    IN  [score     |-> clampTo(AddIf(unregistered, 25) + AddIf(switching, 30), 0, 55),
         reasoning |-> PushIf(unregistered, Reason("ERR_BEHAVIORAL_SHIFT", "Unregistered device"))
                       \o PushIf(switching, Reason("ERR_BEHAVIORAL_SHIFT", "Device switching"))]

AmountRiskEngineMut(tx, profile) ==
    LET overMax   == tx.amount >= profile.max_transaction_amount
        overDaily == ~overMax /\ tx.amount > profile.daily_transaction_limit
        spike     == ~overMax /\ ~overDaily
                     /\ tx.amount > profile.avg_transaction_amount * 3
    IN  [score     |-> clampTo(AddIf(overMax, 75) + AddIf(overDaily, 45) + AddIf(spike, 20), 0, 75),
         reasoning |-> PushIf(overMax, Reason("ERR_VELOCITY_LIMIT", "Amount exceeds max"))
                       \o PushIf(overDaily, Reason("ERR_VELOCITY_LIMIT", "Exceeds daily transaction limit"))
                       \o PushIf(spike, Reason("ERR_BEHAVIORAL_SHIFT", "Amount spike"))]
AmountRiskEngine(tx, profile) ==
    LET overMax   == tx.amount > profile.max_transaction_amount
        overDaily == ~overMax /\ tx.amount > profile.daily_transaction_limit
        spike     == ~overMax /\ ~overDaily
                     /\ tx.amount > profile.avg_transaction_amount * 3
    IN  [score     |-> clampTo(AddIf(overMax, 75) + AddIf(overDaily, 45) + AddIf(spike, 20), 0, 75),
         reasoning |-> PushIf(overMax, Reason("ERR_VELOCITY_LIMIT", "Amount exceeds max"))
                       \o PushIf(overDaily, Reason("ERR_VELOCITY_LIMIT", "Exceeds daily transaction limit"))
                       \o PushIf(spike, Reason("ERR_BEHAVIORAL_SHIFT", "Amount spike"))]

NetworkSessionRiskEngine(tx) ==
    LET vpn     == tx.network_type = "VPN"
        unknown == tx.network_type = "UNKNOWN"
    IN  [score     |-> clampTo(AddIf(vpn, 20) + AddIf(unknown, 10), 0, 30),
         reasoning |-> PushIf(vpn, Reason("ERR_BEHAVIORAL_SHIFT", "VPN detected"))
                       \o PushIf(unknown, Reason("ERR_BEHAVIORAL_SHIFT", "Unknown network type"))]

\* new Date(tx.timestamp).getHours(), the host's time zone being UTC
HourOf(timestamp) == (timestamp \div 3600000) % 24

BehavioralRiskEngineSilent(tx, profile) ==
    LET hour    == HourOf(tx.timestamp)
        unusual == hour < profile.usual_login_times[1] \/ hour > profile.usual_login_times[2]
        dormant == profile.account_status = "DORMANT"
        kycFail == profile.kyc_status = "FAILED"
        kycPend == profile.kyc_status = "PENDING"
        high    == profile.risk_category = "HIGH"
        medium  == profile.risk_category = "MEDIUM"
    IN  [score      |-> clampTo(AddIf(unusual, 10) + AddIf(dormant, 45)
                                + AddIf(kycFail, 35) + AddIf(kycPend, 10), 0, 65),
         reasoning  |-> PushIf(unusual, Reason("ERR_BEHAVIORAL_SHIFT", "Transaction at unusual hour"))
                        \o PushIf(kycFail, Reason("ERR_BEHAVIORAL_SHIFT", "KYC failed"))
                        \o PushIf(kycPend, Reason("ERR_BEHAVIORAL_SHIFT", "KYC pending"))
                        \o PushIf(high, Reason("", "High-risk user profile (1.2x multiplier)"))
                        \o PushIf(medium, Reason("", "Medium-risk user profile (1.1x multiplier)")),
         multiplier |-> IF high THEN 12 ELSE IF medium THEN 11 ELSE 10]
BehavioralRiskEngineMut(tx, profile) ==
    LET hour    == HourOf(tx.timestamp)
        unusual == hour < profile.usual_login_times[1] \/ hour >= profile.usual_login_times[2]
        dormant == profile.account_status = "DORMANT"
        kycFail == profile.kyc_status = "FAILED"
        kycPend == profile.kyc_status = "PENDING"
        high    == profile.risk_category = "HIGH"
        medium  == profile.risk_category = "MEDIUM"
    IN  [score      |-> clampTo(AddIf(unusual, 10) + AddIf(dormant, 45)
                                + AddIf(kycFail, 35) + AddIf(kycPend, 10), 0, 65),
         reasoning  |-> PushIf(unusual, Reason("ERR_BEHAVIORAL_SHIFT", "Transaction at unusual hour"))
                        \o PushIf(dormant, Reason("ERR_BEHAVIORAL_SHIFT", "Dormant account activation"))
                        \o PushIf(kycFail, Reason("ERR_BEHAVIORAL_SHIFT", "KYC failed"))
                        \o PushIf(kycPend, Reason("ERR_BEHAVIORAL_SHIFT", "KYC pending"))
                        \o PushIf(high, Reason("", "High-risk user profile (1.2x multiplier)"))
                        \o PushIf(medium, Reason("", "Medium-risk user profile (1.1x multiplier)")),
         multiplier |-> IF high THEN 12 ELSE IF medium THEN 11 ELSE 10]
BehavioralRiskEngine(tx, profile) ==
    LET hour    == HourOf(tx.timestamp)
        unusual == hour < profile.usual_login_times[1] \/ hour > profile.usual_login_times[2]
        dormant == profile.account_status = "DORMANT"
        kycFail == profile.kyc_status = "FAILED"
        kycPend == profile.kyc_status = "PENDING"
        high    == profile.risk_category = "HIGH"
        medium  == profile.risk_category = "MEDIUM"
    IN  [score      |-> clampTo(AddIf(unusual, 10) + AddIf(dormant, 45)
                                + AddIf(kycFail, 35) + AddIf(kycPend, 10), 0, 65),
         reasoning  |-> PushIf(unusual, Reason("ERR_BEHAVIORAL_SHIFT", "Transaction at unusual hour"))
                        \o PushIf(dormant, Reason("ERR_BEHAVIORAL_SHIFT", "Dormant account activation"))
                        \o PushIf(kycFail, Reason("ERR_BEHAVIORAL_SHIFT", "KYC failed"))
                        \o PushIf(kycPend, Reason("ERR_BEHAVIORAL_SHIFT", "KYC pending"))
                        \o PushIf(high, Reason("", "High-risk user profile (1.2x multiplier)"))
                        \o PushIf(medium, Reason("", "Medium-risk user profile (1.1x multiplier)")),
         multiplier |-> IF high THEN 12 ELSE IF medium THEN 11 ELSE 10]

----------------------------------------------------------------------------
(* SentinelEngine of src/unnamed/part_000 *)

UserHistory(history, userId) == SelectSeq(history, LAMBDA t : t.user_id = userId)

\* new Set(userHistory.filter(t => t.timestamp > fiveMinsAgo).map(t => t.device_id))
\* .add(tx.device_id)
RecentDevices(userHistory, tx) ==
    LET fiveMinsAgo == tx.timestamp - 300000
    IN  { t.device_id : t \in { h \in Range(userHistory) : h.timestamp > fiveMinsAgo } }
        \cup { tx.device_id }

primaryReasonCodeMut(reasons) ==
    LET priority == << "ERR_CHAIN_MISMATCH", "ERR_ESCALATION_OVERRIDE",
                       "ERR_COORDINATED_ATTACK", "ERR_GEO_IMPOSSIBLE",
                       "ERR_VELOCITY_LIMIT", "ERR_BEHAVIORAL_SHIFT" >>
        hits     == { i \in 1..Len(priority) :
                        \E j \in 1..Len(reasons) : StartsWith(reasons[j], priority[i]) }
    IN  IF hits = {} THEN "OK"
        ELSE priority[CHOOSE i \in hits : \A k \in hits : i >= k]

primaryReasonCode(reasons) ==
    LET priority == << "ERR_CHAIN_MISMATCH", "ERR_ESCALATION_OVERRIDE",
                       "ERR_COORDINATED_ATTACK", "ERR_GEO_IMPOSSIBLE",
                       "ERR_VELOCITY_LIMIT", "ERR_BEHAVIORAL_SHIFT" >>
        hits     == { i \in 1..Len(priority) :
                        \E j \in 1..Len(reasons) : StartsWith(reasons[j], priority[i]) }
    IN  IF hits = {} THEN "OK"
        ELSE priority[CHOOSE i \in hits : \A k \in hits : i <= k]

\* secondaryCheck reads the history before the transaction is pushed and the
\* detector after the transaction is recorded
secondaryCheckAlone(history, evs, esc, tx) ==
    LET tenMinsAgo  == tx.timestamp - 600000
        userHistory == UserHistory(history, tx.user_id)
        recentCount == Len(SelectSeq(userHistory, LAMBDA t : t.timestamp > tenMinsAgo))
        velocityFail   == recentCount > 8
        deviceFail     == Cardinality(RecentDevices(userHistory, tx)) > 2
        escalationFail == shouldForceBlock(esc, tx.user_id, THRESHOLD_BLOCK, tx.timestamp)
    IN  ~(velocityFail \/ deviceFail \/ escalationFail)
secondaryCheckLate(history, evs, esc, tx) ==
    LET tenMinsAgo  == tx.timestamp - 600000
        userHistory == UserHistory(history, tx.user_id)
        recentCount == Len(SelectSeq(userHistory, LAMBDA t : t.timestamp > tenMinsAgo))
        velocityFail   == recentCount > 9
        deviceFail     == Cardinality(RecentDevices(userHistory, tx)) > 2
        coordFail      == CoordDetect(evs, tx)
        escalationFail == shouldForceBlock(esc, tx.user_id, THRESHOLD_BLOCK, tx.timestamp)
    IN  ~(velocityFail \/ deviceFail \/ coordFail \/ escalationFail)
secondaryCheckMut(history, evs, esc, tx) ==
    LET tenMinsAgo  == tx.timestamp - 600000
        userHistory == UserHistory(history, tx.user_id)
        recentCount == Len(SelectSeq(userHistory, LAMBDA t : t.timestamp > tenMinsAgo))
        velocityFail   == recentCount > 8
        coordFail      == CoordDetect(evs, tx)
        escalationFail == shouldForceBlock(esc, tx.user_id, THRESHOLD_BLOCK, tx.timestamp)
    IN  ~(velocityFail \/ coordFail \/ escalationFail)
secondaryCheck(history, evs, esc, tx) ==
    LET tenMinsAgo  == tx.timestamp - 600000
        userHistory == UserHistory(history, tx.user_id)
        recentCount == Len(SelectSeq(userHistory, LAMBDA t : t.timestamp > tenMinsAgo))
        velocityFail   == recentCount > 8
        deviceFail     == Cardinality(RecentDevices(userHistory, tx)) > 2
        coordFail      == CoordDetect(evs, tx)
        escalationFail == shouldForceBlock(esc, tx.user_id, THRESHOLD_BLOCK, tx.timestamp)
    IN  ~(velocityFail \/ deviceFail \/ coordFail \/ escalationFail)

buildResultMut(tx, score, componentScores, decision, reasons, reasonCode, ms, coordinated, escalationOverride, buffer) ==
    [transaction_id      |-> tx.transaction_id,
     user_id             |-> tx.user_id,
     amount              |-> tx.amount,
     timestamp           |-> tx.timestamp + ms,
     final_risk_score    |-> score,
     component_scores    |-> componentScores,
     decision            |-> decision,
     reasoning           |-> reasons,
     reason_code         |-> reasonCode,
     processing_time_ms  |-> ms,
     latency_breach      |-> LatencyIsBreach(buffer),
     coordinated_attack  |-> coordinated,
     escalation_override |-> escalationOverride]
buildResult(tx, score, componentScores, decision, reasons, reasonCode, ms, coordinated, escalationOverride, buffer) ==
    [transaction_id      |-> tx.transaction_id,
     user_id             |-> tx.user_id,
     amount              |-> tx.amount,
     timestamp           |-> tx.timestamp,
     final_risk_score    |-> score,
     component_scores    |-> componentScores,
     decision            |-> decision,
     reasoning           |-> reasons,
     reason_code         |-> reasonCode,
     processing_time_ms  |-> ms,
     latency_breach      |-> LatencyIsBreach(buffer),
     coordinated_attack  |-> coordinated,
     escalation_override |-> escalationOverride]

ZeroScores ==
    [geo_risk |-> 0, velocity_risk |-> 0, device_risk |-> 0,
     amount_risk |-> 0, network_risk |-> 0, behavioral_risk |-> 0]

\* Steps 3..7 of evaluate: context, the six evaluators, the sum, the behavioural
\* multiplier, record-then-detect and the coordinated amplifier, the clamp.
\* evs1 is the detector after record(tx).
ScoreOfMut(history, evs1, tx, profile) ==
    LET userHistory == UserHistory(history, tx.user_id)
        lastTx      == IF Len(userHistory) = 0 THEN << >> ELSE << Last(userHistory) >>
        geo      == GeoRiskEngine(tx, profile, lastTx)
        velocity == VelocityRiskEngine(tx, userHistory, profile)
        device   == DeviceRiskEngine(tx, profile, Cardinality(RecentDevices(userHistory, tx)))
        amount   == AmountRiskEngine(tx, profile)
        network  == NetworkSessionRiskEngine(tx)
        behav    == BehavioralRiskEngine(tx, profile)
        sum      == geo.score + velocity.score + device.score
                    + amount.score + network.score + behav.score
        base1    == IF behav.multiplier > 10 THEN (sum * behav.multiplier) \div 10 ELSE sum
        coordinated == CoordDetect(evs1, tx)
        base2    == IF coordinated THEN (base1 * 100) \div COORD_MULTIPLIER_PCT ELSE base1
    IN  [componentScores |-> [geo_risk        |-> geo.score,
                              velocity_risk   |-> velocity.score,
                              device_risk     |-> device.score,
                              amount_risk     |-> amount.score,
                              network_risk    |-> network.score,
                              behavioral_risk |-> behav.score],
         sum         |-> sum,
         baseScore   |-> base2,
         coordinated |-> coordinated,
         finalScore  |-> clamp(base2),
         allReasons  |-> geo.reasoning \o velocity.reasoning \o device.reasoning
                         \o amount.reasoning \o network.reasoning \o behav.reasoning
                         \o PushIf(coordinated,
                                   Reason("ERR_COORDINATED_ATTACK",
                                          "Coordinated cluster detected (1.25x amplifier)"))]
ScoreOf(history, evs1, tx, profile) ==
    LET userHistory == UserHistory(history, tx.user_id)
        lastTx      == IF Len(userHistory) = 0 THEN << >> ELSE << Last(userHistory) >>
        geo      == GeoRiskEngine(tx, profile, lastTx)
        velocity == VelocityRiskEngine(tx, userHistory, profile)
        device   == DeviceRiskEngine(tx, profile, Cardinality(RecentDevices(userHistory, tx)))
        amount   == AmountRiskEngine(tx, profile)
        network  == NetworkSessionRiskEngine(tx)
        behav    == BehavioralRiskEngine(tx, profile)
        sum      == geo.score + velocity.score + device.score
                    + amount.score + network.score + behav.score
        base1    == IF behav.multiplier > 10 THEN (sum * behav.multiplier) \div 10 ELSE sum
        coordinated == CoordDetect(evs1, tx)
        base2    == IF coordinated THEN (base1 * COORD_MULTIPLIER_PCT) \div 100 ELSE base1
    IN  [componentScores |-> [geo_risk        |-> geo.score,
                              velocity_risk   |-> velocity.score,
                              device_risk     |-> device.score,
                              amount_risk     |-> amount.score,
                              network_risk    |-> network.score,
                              behavioral_risk |-> behav.score],
         sum         |-> sum,
         baseScore   |-> base2,
         coordinated |-> coordinated,
         finalScore  |-> clamp(base2),
         allReasons  |-> geo.reasoning \o velocity.reasoning \o device.reasoning
                         \o amount.reasoning \o network.reasoning \o behav.reasoning
                         \o PushIf(coordinated,
                                   Reason("ERR_COORDINATED_ATTACK",
                                          "Coordinated cluster detected (1.25x amplifier)"))]

\* Step 8 of evaluate: the decision, the reason code, the override and the raise
DecisionMut(finalScore, coordinated, allReasons, history, evs1, esc, tx) ==
    IF finalScore > THRESHOLD_BLOCK
    THEN [decision |-> "BLOCK",
          reasonCode |-> IF coordinated THEN "ERR_COORDINATED_ATTACK"
                         ELSE primaryReasonCode(allReasons),
          escalationOverride |-> FALSE, finalScore |-> finalScore, reasons |-> allReasons]
    ELSE IF finalScore > THRESHOLD_PASS
    THEN IF shouldForceBlock(esc, tx.user_id, finalScore, tx.timestamp)
         THEN [decision |-> "BLOCK", reasonCode |-> "ERR_ESCALATION_OVERRIDE",
               escalationOverride |-> TRUE, finalScore |-> Max(finalScore, 70),
               reasons |-> Append(allReasons,
                                  Reason("ERR_ESCALATION_OVERRIDE",
                                         ">=3 OTP challenges in 15 min with risk >= 60 -> forced BLOCK"))]
         ELSE [decision |-> IF secondaryCheck(history, evs1, esc, tx)
                            THEN "STEP_UP" ELSE "BLOCK",
               reasonCode |-> primaryReasonCode(allReasons),
               escalationOverride |-> FALSE, finalScore |-> finalScore,
               reasons |-> allReasons]
    ELSE [decision |-> "APPROVE", reasonCode |-> "OK",
          escalationOverride |-> FALSE, finalScore |-> finalScore, reasons |-> allReasons]
Decision(finalScore, coordinated, allReasons, history, evs1, esc, tx) ==
    IF finalScore >= THRESHOLD_BLOCK
    THEN [decision |-> "BLOCK",
          reasonCode |-> IF coordinated THEN "ERR_COORDINATED_ATTACK"
                         ELSE primaryReasonCode(allReasons),
          escalationOverride |-> FALSE, finalScore |-> finalScore, reasons |-> allReasons]
    ELSE IF finalScore >= THRESHOLD_PASS
    THEN IF shouldForceBlock(esc, tx.user_id, finalScore, tx.timestamp)
         THEN [decision |-> "BLOCK", reasonCode |-> "ERR_ESCALATION_OVERRIDE",
               escalationOverride |-> TRUE, finalScore |-> Max(finalScore, 70),
               reasons |-> Append(allReasons,
                                  Reason("ERR_ESCALATION_OVERRIDE",
                                         ">=3 OTP challenges in 15 min with risk >= 60 -> forced BLOCK"))]
         ELSE [decision |-> IF secondaryCheck(history, evs1, esc, tx)
                            THEN "STEP_UP" ELSE "BLOCK",
               reasonCode |-> primaryReasonCode(allReasons),
               escalationOverride |-> FALSE, finalScore |-> finalScore,
               reasons |-> allReasons]
    ELSE [decision |-> "APPROVE", reasonCode |-> "OK",
          escalationOverride |-> FALSE, finalScore |-> finalScore, reasons |-> allReasons]

\* Step 9 of evaluate.  shouldForceBlock, reached for a score in 40..69, has
\* already created the user's entry through get().
EscalationUpdateMut(esc, tx, finalScore, decision) ==
    LET touched == IF finalScore >= THRESHOLD_PASS /\ finalScore < THRESHOLD_BLOCK
                   THEN EscGet(esc, tx.user_id) ELSE esc
    IN  IF decision = "STEP_UP" THEN EscRecordStepUp(touched, tx.user_id, tx.timestamp)
        ELSE touched
EscalationUpdate(esc, tx, finalScore, decision) ==
    LET touched == IF finalScore >= THRESHOLD_PASS /\ finalScore < THRESHOLD_BLOCK
                   THEN EscGet(esc, tx.user_id) ELSE esc
    IN  IF decision = "STEP_UP" THEN EscRecordStepUp(touched, tx.user_id, tx.timestamp)
        ELSE IF decision = "BLOCK" THEN EscRecordBlock(touched, tx.user_id)
        ELSE touched

\* The blocked-account short-circuit of evaluate
BlockedResultMut(tx, ms, buffer) ==
    buildResult(tx, 100, ZeroScores, "BLOCK",
                << Reason("ERR_BLOCKED_USER", "Account is permanently blocked") >>,
                "OK", ms, FALSE, FALSE, buffer)
BlockedResult(tx, ms, buffer) ==
    buildResult(tx, 100, ZeroScores, "BLOCK",
                << Reason("ERR_BLOCKED_USER", "Account is permanently blocked") >>,
                "ERR_BLOCKED_USER", ms, FALSE, FALSE, buffer)

\* The engine object: the fields evaluate reads and writes
Engine(history, evs, esc, buffer, res) ==
    [transactionHistory |-> history, events |-> evs, escalation |-> esc,
     latencyBuffer |-> buffer, result |-> res]

\* Steps 9..11 of evaluate, given the detector after record(tx), the score,
\* the decision and the latency buffer after record(ms): the escalation
\* state, the history and the result
EvalDecided(e, tx, ms, evs1, sc, d, buffer) ==
    Engine(SliceLast(Append(e.transactionHistory, tx), HISTORY_CAP),
           evs1,
           EscalationUpdate(e.escalation, tx, sc.finalScore, d.decision),
           buffer,
           buildResult(tx, d.finalScore, sc.componentScores, d.decision,
                       d.reasons, d.reasonCode, ms, sc.coordinated,
                       d.escalationOverride, buffer))

\* Step 8 of evaluate, given the detector after record(tx) and the score
EvalScored(e, tx, ms, evs1, sc) ==
    EvalDecided(e, tx, ms, evs1, sc,
                Decision(sc.finalScore, sc.coordinated, sc.allReasons,
                         e.transactionHistory, evs1, e.escalation, tx),
                LatencyRecord(e.latencyBuffer, ms))

\* Steps 3..7 of evaluate, given the detector after record(tx)
EvalRecorded(e, tx, profile, ms, evs1) ==
    EvalScored(e, tx, ms, evs1, ScoreOf(e.transactionHistory, evs1, tx, profile))

\* The short-circuit of evaluate for a BLOCKED account
EvalBlockedMut(e, tx, ms, buffer) ==
    Engine(SliceLast(Append(e.transactionHistory, tx), HISTORY_CAP), e.events, e.escalation,
           buffer, BlockedResult(tx, ms, buffer))
EvalBlocked(e, tx, ms, buffer) ==
    Engine(e.transactionHistory, e.events, e.escalation, buffer,
           BlockedResult(tx, ms, buffer))

\* SentinelEngine.evaluate(tx, profile) on the engine e: the engine after the
\* call, with the result returned; ms is what performance.now() measured
EvalOutcome(e, tx, profile, ms) ==
    IF profile.account_status = "BLOCKED"
    THEN EvalBlocked(e, tx, ms, LatencyRecord(e.latencyBuffer, ms))
    ELSE EvalRecorded(e, tx, profile, ms, CoordRecord(e.events, tx))

\* SentinelEngine.evaluate(tx, profile) on the engine of the model
Evaluate(tx, profile, ms) ==
    \E out \in { EvalOutcome(Engine(transactionHistory, events, escalation,
                                    latencyBuffer, result), tx, profile, ms) } :
        /\ call' = [tx |-> tx, profile |-> profile,
                    history |-> transactionHistory, escalation |-> escalation]
        /\ transactionHistory' = out.transactionHistory
        /\ events' = out.events
        /\ escalation' = out.escalation
        /\ latencyBuffer' = out.latencyBuffer
        /\ result' = out.result
        /\ log' = Append(log, [tx |-> tx, account_status |-> profile.account_status,
                               decision |-> out.result.decision])

getHistory(userId) == UserHistory(transactionHistory, userId)

----------------------------------------------------------------------------
(* SentinelEngine of src/src/engine/SentinelEngine.ts: the evaluators without
   ceilings or reason codes, and the decision thresholds 30 and 60. *)

V1GeoRiskEngine(tx, profile, lastTx) ==
    LET mismatch == tx.location.city # profile.registered_city
        travel   == Len(lastTx) = 1 /\ ImpossibleTravel(tx, lastTx[1])
    IN  [score     |-> AddIf(mismatch, 10) + AddIf(travel, 50),
         reasoning |-> PushIf(mismatch, Reason("", "Location mismatch"))
                       \o PushIf(travel, Reason("", "Impossible Travel"))]

V1VelocityRiskEngine(tx, recentTxns, profile) ==
    LET tenMinsAgo  == tx.timestamp - 10 * 60 * 1000
        recentCount == Len(SelectSeq(recentTxns, LAMBDA t : t.timestamp > tenMinsAgo))
        smallTxns   == Len(SelectSeq(recentTxns,
                             LAMBDA t : t.timestamp > tenMinsAgo /\ t.amount = 1))
        burst  == recentCount > 5
        spam   == tx.amount = 1 /\ smallTxns > 3
        failed == profile.failed_attempts_last_10_min > 3
    IN  [score     |-> AddIf(burst, 20) + AddIf(spam, 30) + AddIf(failed, 40),
         reasoning |-> PushIf(burst, Reason("", "High Velocity"))
                       \o PushIf(spam, Reason("", "Suspected Rs 1 Spam Burst"))
                       \o PushIf(failed, Reason("", "Excessive Failed Attempts"))]

V1DeviceRiskEngine(tx, profile, distinctDevicesLast5Min) ==
    LET unregistered == tx.device_id # profile.registered_device_id
        switching    == distinctDevicesLast5Min > 1
    IN  [score     |-> AddIf(unregistered, 25) + AddIf(switching, 30),
         reasoning |-> PushIf(unregistered, Reason("", "Unregistered Device"))
                       \o PushIf(switching, Reason("", "Device Switching Detected"))]

V1AmountRiskEngine(tx, profile) ==
    LET overMax   == tx.amount > profile.max_transaction_amount
        overDaily == tx.amount > profile.daily_transaction_limit
        spike     == tx.amount > profile.avg_transaction_amount * 3
    IN  [score     |-> AddIf(overMax, 100) + AddIf(overDaily, 50) + AddIf(spike, 20),
         reasoning |-> PushIf(overMax, Reason("", "Exceeds Max Limit"))
                       \o PushIf(overDaily, Reason("", "Exceeds Daily Limit"))
                       \o PushIf(spike, Reason("", "Abnormal Amount Spike"))]

V1NetworkSessionRiskEngine(tx) ==
    LET vpn     == tx.network_type = "VPN"
        unknown == tx.network_type = "UNKNOWN"
    IN  [score     |-> AddIf(vpn, 15) + AddIf(unknown, 10),
         reasoning |-> PushIf(vpn, Reason("", "VPN Detected"))
                       \o PushIf(unknown, Reason("", "Unknown Network Type"))]

V1BehavioralRiskEngine(tx, profile) ==
    LET hour    == HourOf(tx.timestamp)
        unusual == hour < profile.usual_login_times[1] \/ hour > profile.usual_login_times[2]
        dormant == profile.account_status = "DORMANT"
        high    == profile.risk_category = "HIGH"
        medium  == profile.risk_category = "MEDIUM"
    IN  [score      |-> AddIf(unusual, 10) + AddIf(dormant, 50),
         reasoning  |-> PushIf(unusual, Reason("", "Transaction outside usual hours"))
                        \o PushIf(dormant, Reason("", "Dormant Account Activation"))
                        \o PushIf(high, Reason("", "High Risk User Category (1.2x Multiplier)"))
                        \o PushIf(medium, Reason("", "Medium Risk User Category (1.1x Multiplier)")),
         multiplier |-> IF high THEN 12 ELSE IF medium THEN 11 ELSE 10]

V1Decision(finalScore) ==
    IF finalScore >= 60 THEN "BLOCK"
    ELSE IF finalScore >= 30 THEN "STEP_UP"
    ELSE "APPROVE"

V1Outcome(history, tx, profile, ms) ==
    LET userHistory == UserHistory(history, tx.user_id)
        lastTx      == IF Len(userHistory) = 0 THEN << >> ELSE << Last(userHistory) >>
        geo      == V1GeoRiskEngine(tx, profile, lastTx)
        velocity == V1VelocityRiskEngine(tx, userHistory, profile)
        device   == V1DeviceRiskEngine(tx, profile, Cardinality(RecentDevices(userHistory, tx)))
        amount   == V1AmountRiskEngine(tx, profile)
        network  == V1NetworkSessionRiskEngine(tx)
        behav    == V1BehavioralRiskEngine(tx, profile)
        sum      == geo.score + velocity.score + device.score
                    + amount.score + network.score + behav.score
        scaled   == IF behav.multiplier > 10 THEN (sum * behav.multiplier) \div 10 ELSE sum
        finalScore == Min(100, Max(0, scaled))
    IN  [transaction_id     |-> tx.transaction_id,
         user_id            |-> tx.user_id,
         amount             |-> tx.amount,
         timestamp          |-> tx.timestamp,
         final_risk_score   |-> finalScore,
         component_scores   |-> [geo_risk        |-> geo.score,
                                 velocity_risk   |-> velocity.score,
                                 device_risk     |-> device.score,
                                 amount_risk     |-> amount.score,
                                 network_risk    |-> network.score,
                                 behavioral_risk |-> behav.score],
         decision           |-> V1Decision(finalScore),
         reasoning          |-> geo.reasoning \o velocity.reasoning \o device.reasoning
                                \o amount.reasoning \o network.reasoning \o behav.reasoning,
         processing_time_ms |-> ms]

\* SentinelEngine.evaluate(tx, profile) of src/src/engine/SentinelEngine.ts
V1Evaluate(tx, profile, ms) ==
    /\ v1Result' = V1Outcome(v1History, tx, profile, ms)
    /\ v1History' = SliceLast(Append(v1History, tx), HISTORY_CAP)

----------------------------------------------------------------------------
(* The hash primitive of src/src/engine/crypto.ts.  sha256 returns undefined
   (<< >> here, << digest >> otherwise) as soon as a character code of its
   input exceeds 255; the digest of an accepted input is the input behind the
   mark "#": distinct inputs have distinct digests, and no digest is empty. *)

\* a character whose charCodeAt() is above 255 (the rupee sign U+20B9)
WideChar == "U+20B9"

sha256Mut(ascii) ==
    IF \E i \in 1..Len(ascii) : ascii[i] = WideChar
    THEN << >>
    ELSE << << "#" >> >>
sha256(ascii) ==
    IF \E i \in 1..Len(ascii) : ascii[i] = WideChar
    THEN << >>
    ELSE << << "#" >> \o ascii >>

\* SHA256(x) || ''
OrEmpty(digest) == IF digest = << >> THEN << >> ELSE digest[1]

Digit(d) ==
    CASE d = 0 -> "0" [] d = 1 -> "1" [] d = 2 -> "2" [] d = 3 -> "3" [] d = 4 -> "4"
      [] d = 5 -> "5" [] d = 6 -> "6" [] d = 7 -> "7" [] d = 8 -> "8" [] d = 9 -> "9"

\* `${n}` for an integer n
RECURSIVE NumToStr(_)
NumToStr(n) ==
    IF n < 0 THEN << "-" >> \o NumToStr(0 - n)
    ELSE IF n < 10 THEN << Digit(n) >>
    ELSE NumToStr(n \div 10) \o << Digit(n % 10) >>

\* JSON.stringify(result): the fields in order; characters above 255 are
\* left as they are
JSONStringify(r) ==
    << "{" >> \o r.transaction_id \o << "," >> \o NumToStr(r.final_risk_score)
    \o << ",", r.decision, "," >> \o r.reasoning \o << "}" >>

----------------------------------------------------------------------------
(* ImmutableLedger of src/src/engine/ImmutableLedger.ts *)

calculateHashMut(index, prevHash, txId, score) ==
    OrEmpty(sha256(NumToStr(index) \o prevHash \o txId))
calculateHash(index, prevHash, txId, score) ==
    OrEmpty(sha256(NumToStr(index) \o prevHash \o txId \o NumToStr(score)))

GenesisId ==
    << "0","0","0","0","0","0","0","0","-","0","0","0","0","-","0","0","0","0","-",
       "0","0","0","0","-","0","0","0","0","0","0","0","0","0","0","0","0" >>

Genesis(now) ==
    [index            |-> 0,
     transaction_id   |-> GenesisId,
     timestamp        |-> now,
     final_risk_score |-> 0,
     decision         |-> "GENESIS",
     previous_hash    |-> << "0" >>,
     current_hash     |-> calculateHash(0, << "0" >>, << "G","E","N","E","S","I","S" >>, 0),
     data_hash        |-> << "0" >>]

EntryIndexMut(ch) == Len(ch) + 1
\* const index = this.chain.length
EntryIndex(ch) == Len(ch)

NewEntryMut(ch, r, now) ==
    LET prev == ch[Len(ch)]
    IN  [index            |-> Len(ch),
         transaction_id   |-> r.transaction_id,
         timestamp        |-> now,
         final_risk_score |-> r.final_risk_score,
         decision         |-> r.decision,
         previous_hash    |-> prev.previous_hash,
         current_hash     |-> calculateHash(Len(ch), prev.previous_hash,
                                            r.transaction_id, r.final_risk_score),
         data_hash        |-> OrEmpty(sha256(JSONStringify(r)))]
\* the entry addEntry(result) builds on the chain ch at time now
NewEntry(ch, r, now) ==
    LET prev == ch[Len(ch)]
    IN  [index            |-> EntryIndex(ch),
         transaction_id   |-> r.transaction_id,
         timestamp        |-> now,
         final_risk_score |-> r.final_risk_score,
         decision         |-> r.decision,
         previous_hash    |-> prev.current_hash,
         current_hash     |-> calculateHash(EntryIndex(ch), prev.current_hash,
                                            r.transaction_id, r.final_risk_score),
         data_hash        |-> OrEmpty(sha256(JSONStringify(r)))]

verifyIntegrityLast(ch) ==
    \A i \in { Len(ch) } \ { 1 } :
        /\ ch[i].previous_hash = ch[i - 1].current_hash
        /\ ch[i].current_hash = calculateHash(ch[i].index, ch[i].previous_hash,
                                              ch[i].transaction_id, ch[i].final_risk_score)
verifyIntegrityMut(ch) ==
    \A i \in 2..Len(ch) : ch[i].previous_hash = ch[i - 1].current_hash
verifyIntegrity(ch) ==
    \A i \in 2..Len(ch) :
        /\ ch[i].previous_hash = ch[i - 1].current_hash
        /\ ch[i].current_hash = calculateHash(ch[i].index, ch[i].previous_hash,
                                              ch[i].transaction_id, ch[i].final_risk_score)

getLatestHash == chain[Len(chain)].current_hash

NoEntry == << >>
NoList == << >>

PushEntryMut(ch, entry) == Append(SubSeq(ch, 1, Len(ch) - 1), entry)
\* this.chain.push(entry)
PushEntry(ch, entry) == Append(ch, entry)

\* ImmutableLedger.addEntry(result), Date.now() being now
AddEntry(r, now) ==
    LET entry == NewEntry(chain, r, now)
    IN  /\ chain' = PushEntry(chain, entry)
        /\ appended' = Append(appended, r)
        /\ ledgerRet' = [op |-> "addEntry", ok |-> TRUE, entry |-> << entry >>,
                         reason |-> "", arg |-> r, now |-> now, before |-> chain,
                         after |-> chain', during |-> tampered]
        /\ UNCHANGED << tampered, nTampers, obtained >>

verifyAndAddGuardMut(ch) == TRUE
verifyAndAddGuard(ch) == verifyIntegrity(ch)

\* ImmutableLedger.verifyAndAdd(result)
VerifyAndAdd(r, now) ==
    IF ~verifyAndAddGuard(chain)
    THEN /\ UNCHANGED << chain, appended, tampered, nTampers, obtained >>
         /\ ledgerRet' = [op |-> "verifyAndAdd", ok |-> FALSE, entry |-> NoEntry,
                          reason |-> "ERR_CHAIN_MISMATCH", arg |-> r, now |-> now,
                          before |-> chain, after |-> chain', during |-> tampered]
    ELSE LET entry == NewEntry(chain, r, now)
         IN  /\ chain' = PushEntry(chain, entry)
             /\ appended' = Append(appended, r)
             /\ ledgerRet' = [op |-> "verifyAndAdd", ok |-> TRUE, entry |-> << entry >>,
                              reason |-> "", arg |-> r, now |-> now, before |-> chain,
                              after |-> chain', during |-> tampered]
             /\ UNCHANGED << tampered, nTampers, obtained >>

\* ImmutableLedger.verifyIntegrity() and getLatestHash(), called by a client
ReadLedger(op) ==
    /\ UNCHANGED << chain, appended, tampered, nTampers, obtained >>
    /\ ledgerRet' = [op |-> op, ok |-> verifyIntegrity(chain), hash |-> getLatestHash,
                     before |-> chain, after |-> chain', during |-> tampered]

\* ImmutableLedger.getChain(): return this.chain.  The caller holds the
\* ledger's own array, so what it holds is, at any later time, the chain;
\* obtained keeps the value the array had when it was returned.
getChain == chain

GetChain ==
    /\ obtained = NoList
    /\ obtained' = << getChain >>
    /\ UNCHANGED << chain, appended, tampered, nTampers >>
    /\ ledgerRet' = [op |-> "getChain", before |-> chain, after |-> chain',
                     during |-> tampered]

\* A holder of getChain(), which returns the ledger's own array, assigns one
\* field of one entry in place; Restore puts the original value back.
EntryFields ==
    { "index", "transaction_id", "timestamp", "final_risk_score", "decision",
      "previous_hash", "current_hash", "data_hash" }

OtherValues(field, current) ==
    ( CASE field \in { "index", "timestamp" } -> { current + 1 }
        [] field = "final_risk_score" -> { 0, current + 1 }
        [] field = "decision" -> { "APPROVE", "BLOCK" }
        [] OTHER -> { << >>, << "x" >> } ) \ { current }

NoTamper == << >>

Tamper(i, field, value) ==
    /\ obtained # NoList
    /\ tampered = NoTamper
    /\ i \in 1..Len(chain)
    /\ value \in OtherValues(field, chain[i][field])
    /\ chain' = [chain EXCEPT ![i][field] = value]
    /\ tampered' = << [at |-> i, field |-> field, original |-> chain[i][field]] >>
    /\ nTampers' = nTampers + 1
    /\ UNCHANGED << ledgerRet, appended, obtained >>

\* A holder of getChain() assigns transaction_id and final_risk_score of one
\* appended entry together: a digit moved from the end of the id to the front
\* of the score, or a longer id and another score.
IsDigit(c) == c \in { Digit(d) : d \in 0..9 }
DigitValue(c) == CHOOSE d \in 0..9 : Digit(d) = c
RECURSIVE Pow10(_)
Pow10(n) == IF n = 0 THEN 1 ELSE 10 * Pow10(n - 1)
OtherPairs(e) ==
    LET id    == e.transaction_id
        score == e.final_risk_score
    IN  { << id \o << "9" >>, score + 1 >> }
        \cup ( IF Len(id) >= 2 /\ IsDigit(id[Len(id)])
               THEN { << SubSeq(id, 1, Len(id) - 1),
                         DigitValue(id[Len(id)]) * Pow10(Len(NumToStr(score))) + score >> }
               ELSE {} )
TamperPair(i, id, score) ==
    /\ obtained # NoList
    /\ tampered = NoTamper
    /\ i \in 2..Len(chain)
    /\ << id, score >> \in OtherPairs(chain[i])
    /\ chain' = [chain EXCEPT ![i].transaction_id = id, ![i].final_risk_score = score]
    /\ tampered' = << [at |-> i, field |-> "transaction_id", original |-> chain[i].transaction_id],
                      [at |-> i, field |-> "final_risk_score", original |-> chain[i].final_risk_score] >>
    /\ nTampers' = nTampers + 1
    /\ UNCHANGED << ledgerRet, appended, obtained >>

\* the chain ch with the assignments ts undone
UndoOne(ch, t) == [ch EXCEPT ![t.at][t.field] = t.original]
Undo(ch, ts) ==
    IF Len(ts) = 0 THEN ch
    ELSE IF Len(ts) = 1 THEN UndoOne(ch, ts[1])
    ELSE UndoOne(UndoOne(ch, ts[2]), ts[1])

Restore ==
    /\ tampered # NoTamper
    /\ chain' = Undo(chain, tampered)
    /\ tampered' = NoTamper
    /\ UNCHANGED << ledgerRet, appended, nTampers, obtained >>

----------------------------------------------------------------------------
(* Drivers: the inputs the operations are called with.  Each workload is a
   class of callers; the bounds cap how many calls a caller makes. *)

MaxMixed   == 3     \* evaluate calls of the "mixed" caller
MaxEscalation == 4  \* evaluate calls of the "escalation" caller
MaxCluster == 5     \* evaluate calls of the "cluster" callers
MaxBurst   == 10    \* evaluate calls of the "burst" caller
MaxLatency == 11    \* evaluate calls of the "latency" caller
MaxV1      == 2     \* evaluate calls on the engine of SentinelEngine.ts
MaxTwin    == 3     \* evaluate calls on each engine of the "twin" caller
MaxFlood   == 1002  \* evaluate calls of the "flood" caller
MaxRepeat  == 8     \* evaluate calls of the "repeat" caller
MaxSwarm   == 4     \* evaluate calls of the "swarm" caller after its first SwarmStart
MaxAmount  == 2     \* evaluate calls of the "amount" caller
MaxEdge    == 2     \* evaluate calls of the "edge" caller
MaxAppends == 3     \* addEntry, verifyAndAdd, verifyIntegrity and getLatestHash calls on the ledger
MaxTampers == 1     \* in-place mutations of the chain

\* 10:00:00 and 10:20:00 on the day the clock starts, in ms
T0 == 10 * 3600000
T1 == T0 + 20 * 60 * 1000

\* MOCK_USERS['user_123'] and variations of it
BaseProfile ==
    [user_id |-> "user_123", registered_city |-> "Mumbai",
     registered_device_id |-> "dev1", avg_transaction_amount |-> 2000,
     max_transaction_amount |-> 50000, daily_transaction_limit |-> 100000,
     kyc_status |-> "VERIFIED", risk_category |-> "LOW", account_status |-> "ACTIVE",
     usual_login_times |-> << 8, 23 >>, failed_attempts_last_10_min |-> 0]

MediumProfile  == [BaseProfile EXCEPT !.risk_category = "MEDIUM"]
HighProfile    == [BaseProfile EXCEPT !.risk_category = "HIGH"]
PendingProfile == [BaseProfile EXCEPT !.kyc_status = "PENDING"]
FailedProfile  == [BaseProfile EXCEPT !.kyc_status = "FAILED"]
DormantProfile == [BaseProfile EXCEPT !.account_status = "DORMANT"]
BlockedProfile == [BaseProfile EXCEPT !.account_status = "BLOCKED"]
DormantFailedProfile == [DormantProfile EXCEPT !.kyc_status = "FAILED"]
TightProfile    == [BaseProfile EXCEPT !.max_transaction_amount = 5000]
LowDailyProfile == [BaseProfile EXCEPT !.daily_transaction_limit = 40000]
LockedOutProfile == [BaseProfile EXCEPT !.failed_attempts_last_10_min = 4]
NightProfile     == [BaseProfile EXCEPT !.usual_login_times = << 22, 6 >>]

TxId(n) == << "t" >> \o NumToStr(n)

Tx(n, user, amount, ts, device, location, merchant, network) ==
    [transaction_id |-> TxId(n), user_id |-> user, amount |-> amount,
     timestamp |-> ts, device_id |-> device, location |-> location,
     merchant_id |-> merchant, merchant_category |-> << >>,
     network_type |-> network]

\* A call of evaluate: the transaction's fields and the profile it comes with
Call(user, amount, ts, device, location, network, profile) ==
    [user |-> user, amount |-> amount, ts |-> ts, device |-> device,
     location |-> location, network |-> network, profile |-> profile]

TxOf(n, c) == Tx(n, c.user, c.amount, c.ts, c.device, c.location, "merch_001", c.network)

\* the "mixed" caller: one user; the thresholds, the multiplier, the blocked
\* account, device switching and impossible travel
MixedCalls ==
    { Call("u1", 1500, T0, "dev1", Mumbai, "4G",      BaseProfile),
      Call("u1", 1500, T0, "dev1", Mumbai, "4G",      BlockedProfile),
      Call("u1", 1500, T0, "dev1", Mumbai, "VPN",     HighProfile),
      Call("u1", 7000, T0, "dev1", Delhi,  "UNKNOWN", BaseProfile),
      Call("u1", 7000, T0, "dev1", Delhi,  "UNKNOWN", MediumProfile),
      Call("u1", 1500, T0, "dev2", Mumbai, "4G",      BaseProfile),
      Call("u1", 1500, T0, "dev2", Mumbai, "4G",      DormantProfile),
      Call("u1", 1500, T0, "dev3", Mumbai, "4G",      BaseProfile),
      Call("u1", 60000, T1, "dev1", Mumbai, "4G",     BaseProfile),
      Call("u1", 1500, T1, "dev1", Delhi,  "4G",      BaseProfile),
      Call("u1", 7000, T1, "dev1", Delhi,  "UNKNOWN", DormantProfile) }

\* the "escalation" caller: one user collecting step-ups
EscalationCalls ==
    { Call("u1", 7000, T0, "dev1", Delhi,  "UNKNOWN", BaseProfile),
      Call("u1", 7000, T0, "dev1", Delhi,  "UNKNOWN", MediumProfile),
      Call("u1", 1500, T0, "dev2", Mumbai, "4G",      FailedProfile),
      Call("u1", 7000, T1, "dev1", Delhi,  "UNKNOWN", HighProfile) }

\* the "cluster" callers: users appear in the order u1, u2, ...; a call comes
\* from the next new user or from u1 again
ClusterUsers == << "u1", "u2", "u3", "u4", "u5", "u6", "u7" >>
SeenUsers(evs, history) ==
    { e.user_id : e \in Range(evs) } \cup { t.user_id : t \in Range(history) }
ClusterCalls(seen) ==
    LET next == ClusterUsers[Min(Cardinality(seen) + 1, Len(ClusterUsers))]
    IN  { Call(next, 1000, T0, "dev1", Mumbai, "4G", BaseProfile),
          Call("u1", 1000, T0, "dev1", Mumbai, "4G", BaseProfile),
          Call(next, 1040, T0, "dev1", Mumbai, "4G", FailedProfile),
          Call(next, 1000, T0, "dev1", Mumbai, "4G", DormantFailedProfile),
          Call(next, 1000, T0, "dev1", Mumbai, "4G", BlockedProfile),
          Call(next, 1000, T1, "dev1", Mumbai, "4G", BaseProfile),
          Call(next, 2000, T1, "dev1", Mumbai, "4G", BaseProfile) }

\* the "burst" caller: one user, Rs 1 payments at one instant
BurstCalls ==
    { Call("u1", 1, T0, "dev1", Mumbai, "4G", BaseProfile),
      Call("u1", 1, T0, "dev1", Mumbai, "4G", PendingProfile),
      Call("u1", 1500, T0, "dev1", Mumbai, "4G", BaseProfile) }

\* the "latency" caller: fast evaluations and slow rejections
FastMs == 5
SlowMs == 900
LatencyCalls ==
    { [call |-> Call("u1", 1500, T0, "dev1", Mumbai, "4G", BaseProfile), ms |-> FastMs],
      [call |-> Call("u1", 1500, T0, "dev1", Mumbai, "4G", BlockedProfile), ms |-> SlowMs] }

\* the "twin" caller: feeds two engines the same calls; the second engine's
\* evaluations take ms of their own
TwinCalls ==
    EscalationCalls \cup { Call("u1", 7000, T0, "dev1", Delhi, "UNKNOWN", BlockedProfile) }
TwinMs == { FastMs, SlowMs }

\* the "flood" caller: a payment a minute, two of three by u1 and the third by
\* u2; its first call and its calls from the thousandth on may also come with
\* a BLOCKED profile or from u2
FloodSteady(k) ==
    Call(IF k % 3 = 0 THEN "u2" ELSE "u1", 1500, T0 + k * 60000, "dev1", Mumbai, "4G", BaseProfile)
FloodCalls(k) ==
    IF k = 1 \/ k >= HISTORY_CAP
    THEN { FloodSteady(k),
           Call("u1", 1500, T0 + k * 60000, "dev1", Mumbai, "4G", BlockedProfile),
           Call("u2", 1500, T0 + k * 60000, "dev1", Mumbai, "4G", BaseProfile) }
    ELSE { FloodSteady(k) }

\* the "swarm" caller: payments a millisecond apart, more of them than the
\* detector retains, then payments 20 minutes later
SwarmSteady(k) ==
    Call(IF k % 3 = 0 THEN "u2" ELSE "u1", 1500, T0 + k, "dev1", Mumbai, "4G", BaseProfile)
SwarmCalls(k) ==
    { SwarmSteady(k),
      Call("u1", 1500, T1, "dev1", Mumbai, "4G", BlockedProfile),
      Call("u2", 1500, T1, "dev1", Mumbai, "4G", BaseProfile) }

\* the "repeat" caller: one user, a risky payment every three minutes
RepeatCalls(k) ==
    { Call("u1", 7000, T0 + k * 180000, "dev1", Delhi,  "UNKNOWN", BaseProfile),
      Call("u1", 7000, T0 + k * 180000, "dev1", Delhi,  "UNKNOWN", MediumProfile),
      Call("u1", 1500, T0 + k * 180000, "dev2", Mumbai, "4G",      FailedProfile) }

\* the "amount" caller: payments at and just over the profile's maximum
AmountCalls ==
    { Call("u1", 50000, T0, "dev1", Mumbai, "4G", BaseProfile),
      Call("u1", 50001, T0, "dev1", Mumbai, "4G", BaseProfile),
      Call("u1", 5000,  T0, "dev1", Mumbai, "4G", TightProfile),
      Call("u1", 50000, T0, "dev1", Mumbai, "4G", LowDailyProfile),
      Call("u1", 50000, T0, "dev1", Mumbai, "4G", BlockedProfile) }

\* the "edge" caller: first transactions of a user, and transactions at the
\* edges of the evaluators' conditions
EdgeCalls ==
    { Call("u1", 1500, T0, "dev1", Mumbai, "4G", LockedOutProfile),
      Call("u1", 1,    T0, "dev2", Mumbai, "4G", LockedOutProfile),
      Call("u2", 1500, T0, "dev2", Mumbai, "4G", BaseProfile),
      Call("u1", 1500, T0, "dev1", Mumbai, "4G", BaseProfile),
      Call("u1", 1500, T0 + 60000, "dev1", Delhi, "4G", BaseProfile),
      Call("u1", 7000, T0 + 60000, "dev1", Delhi, "4G", BaseProfile),
      Call("u1", 1500, 23 * 3600000, "dev1", Mumbai, "4G", BaseProfile),
      Call("u1", 1500, 23 * 3600000, "dev1", Mumbai, "4G", DormantProfile),
      Call("u1", 1500, 6 * 3600000,  "dev1", Mumbai, "4G", NightProfile) }

\* the results a caller hands to the ledger
LedgerResults ==
    { [transaction_id |-> << "t", "1" >>, final_risk_score |-> 3,
       decision |-> "APPROVE", reasoning |-> << >>],
      [transaction_id |-> << "t", "1", "2" >>, final_risk_score |-> 45,
       decision |-> "STEP_UP", reasoning |-> << "E", "R", "R" >>],
      [transaction_id |-> << "t", WideChar >>, final_risk_score |-> 70,
       decision |-> "BLOCK", reasoning |-> << "E", "R", "R" >>],
      [transaction_id |-> << "t", "3" >>, final_risk_score |-> 100,
       decision |-> "BLOCK", reasoning |-> << WideChar, "1" >>] }
\* the "tamper" caller appends the first and the third of them only
LedgerResultsOf(w) ==
    IF w = "append" THEN LedgerResults
    ELSE { r \in LedgerResults : r.final_risk_score \in { 3, 70 } }
\* Date.now() when the ledger is constructed, and at the later calls
LedgerStart == 1700
LedgerClock(w) ==
    IF w = "append" THEN { LedgerStart, LedgerStart + 1 } ELSE { LedgerStart + 1 }

NoResult == [decision |-> "NONE"]
NoCall   == [tx |-> << >>]
NoReturn == [op |-> "none"]

EngineWorkloads ==
    { "mixed", "escalation", "cluster", "burst", "latency", "twin", "amount", "edge", "repeat",
      "v1" }
LedgerWorkloads == { "append", "tamper" }

InitObjects ==
    /\ nCalls = 0
    /\ transactionHistory = << >>
    /\ events = << >>
    /\ escalation = EmptyMap
    /\ latencyBuffer = << >>
    /\ result = NoResult
    /\ call = NoCall
    /\ log = << >>
    /\ twin = Engine(<< >>, << >>, EmptyMap, << >>, NoResult)
    /\ v1History = << >>
    /\ v1Result = NoResult
    /\ chain = << Genesis(LedgerStart) >>
    /\ ledgerRet = NoReturn
    /\ appended = << >>
    /\ tampered = NoTamper
    /\ nTampers = 0
    /\ obtained = NoList

Init == workload \in EngineWorkloads /\ InitObjects

InitLedger == workload \in LedgerWorkloads /\ InitObjects

EvaluateStep(tx, profile, ms) ==
    /\ Evaluate(tx, profile, ms)
    /\ nCalls' = nCalls + 1
    /\ UNCHANGED << workload, twin, v1Vars, ledgerVars >>

Mixed ==
    /\ workload = "mixed" /\ nCalls < MaxMixed
    /\ \E c \in MixedCalls : EvaluateStep(TxOf(nCalls + 1, c), c.profile, FastMs)

Escalation ==
    /\ workload = "escalation" /\ nCalls < MaxEscalation
    /\ \E c \in EscalationCalls : EvaluateStep(TxOf(nCalls + 1, c), c.profile, FastMs)

Cluster ==
    /\ workload = "cluster" /\ nCalls < MaxCluster
    /\ \E c \in ClusterCalls(SeenUsers(events, transactionHistory)) :
          EvaluateStep(TxOf(nCalls + 1, c), c.profile, FastMs)

Burst ==
    /\ workload = "burst" /\ nCalls < MaxBurst
    /\ \E c \in BurstCalls : EvaluateStep(TxOf(nCalls + 1, c), c.profile, FastMs)

Latency ==
    /\ workload = "latency" /\ nCalls < MaxLatency
    /\ \E c \in LatencyCalls : EvaluateStep(TxOf(nCalls + 1, c.call), c.call.profile, c.ms)

Twin ==
    /\ workload = "twin" /\ nCalls < MaxTwin
    /\ \E c \in TwinCalls, ms \in TwinMs :
          /\ Evaluate(TxOf(nCalls + 1, c), c.profile, FastMs)
          /\ twin' = EvalOutcome(twin, TxOf(nCalls + 1, c), c.profile, ms)
          /\ nCalls' = nCalls + 1
          /\ UNCHANGED << workload, v1Vars, ledgerVars >>

Amount ==
    /\ workload = "amount" /\ nCalls < MaxAmount
    /\ \E c \in AmountCalls : EvaluateStep(TxOf(nCalls + 1, c), c.profile, FastMs)

Edge ==
    /\ workload = "edge" /\ nCalls < MaxEdge
    /\ \E c \in EdgeCalls : EvaluateStep(TxOf(nCalls + 1, c), c.profile, FastMs)

Repeat ==
    /\ workload = "repeat" /\ nCalls < MaxRepeat
    /\ \E c \in RepeatCalls(nCalls + 1) : EvaluateStep(TxOf(nCalls + 1, c), c.profile, FastMs)

V1 ==
    /\ workload = "v1" /\ nCalls < MaxV1
    /\ \E c \in MixedCalls :
          /\ V1Evaluate(TxOf(nCalls + 1, c), c.profile, FastMs)
          /\ nCalls' = nCalls + 1
          /\ UNCHANGED << workload, engineVars, ledgerVars >>

Next ==
    Mixed \/ Escalation \/ Cluster \/ Burst \/ Latency \/ Twin \/ Amount \/ Edge \/ Repeat \/ V1

Spec == Init /\ [][Next]_vars

Flood ==
    /\ workload = "flood" /\ nCalls < MaxFlood
    /\ \E c \in FloodCalls(nCalls + 1) : EvaluateStep(TxOf(nCalls + 1, c), c.profile, FastMs)

InitHistory == workload = "flood" /\ InitObjects

NextHistory == Flood

SpecHistory == InitHistory /\ [][NextHistory]_vars


\* the engine is observed from the SwarmStart-th payment of the swarm on
SwarmStart == COORD_EVENT_CAP - 2
\* the engine after the first n payments of the swarm, n >= HISTORY_CAP: each
\* was approved (the velocity penalty alone, 30), so the last 1000 are in the
\* history, the last 5000 in the detector, the tracker has no entry, and the
\* latency buffer holds the last 10 durations
SwarmEngine(n) ==
    Engine([k \in 1..HISTORY_CAP |-> TxOf(n - HISTORY_CAP + k, SwarmSteady(n - HISTORY_CAP + k))],
           [k \in 1..Min(n, COORD_EVENT_CAP) |->
               LET t == TxOf(n - Min(n, COORD_EVENT_CAP) + k, SwarmSteady(n - Min(n, COORD_EVENT_CAP) + k))
               IN  [user_id |-> t.user_id, merchant_category |-> MerchantCategoryOf(t),
                    amount |-> t.amount, timestamp |-> t.timestamp]],
           EmptyMap,
           [k \in 1..LATENCY_WINDOW |-> FastMs],
           NoResult)

Swarm ==
    /\ workload = "swarm" /\ nCalls < SwarmStart + MaxSwarm
    /\ \E c \in SwarmCalls(nCalls + 1) : EvaluateStep(TxOf(nCalls + 1, c), c.profile, FastMs)

InitDetector ==
    /\ workload = "swarm"
    /\ nCalls = SwarmStart
    /\ transactionHistory = SwarmEngine(SwarmStart).transactionHistory
    /\ events = SwarmEngine(SwarmStart).events
    /\ escalation = SwarmEngine(SwarmStart).escalation
    /\ latencyBuffer = SwarmEngine(SwarmStart).latencyBuffer
    /\ result = NoResult
    /\ call = NoCall
    /\ log = << >>
    /\ twin = Engine(<< >>, << >>, EmptyMap, << >>, NoResult)
    /\ v1History = << >>
    /\ v1Result = NoResult
    /\ chain = << Genesis(LedgerStart) >>
    /\ ledgerRet = NoReturn
    /\ appended = << >>
    /\ tampered = NoTamper
    /\ nTampers = 0
    /\ obtained = NoList

NextDetector == Swarm

SpecDetector == InitDetector /\ [][NextDetector]_vars

LedgerAdd ==
    /\ nCalls < MaxAppends
    /\ \E r \in LedgerResultsOf(workload), now \in LedgerClock(workload) : AddEntry(r, now)
    /\ nCalls' = nCalls + 1
    /\ UNCHANGED << workload, engineVars, v1Vars >>

LedgerVerifyAndAdd ==
    /\ nCalls < MaxAppends
    /\ \E r \in LedgerResultsOf(workload), now \in LedgerClock(workload) : VerifyAndAdd(r, now)
    /\ nCalls' = nCalls + 1
    /\ UNCHANGED << workload, engineVars, v1Vars >>

LedgerTamper ==
    /\ workload = "tamper" /\ nTampers < MaxTampers
    /\ \E i \in 1..Len(chain), f \in EntryFields :
          \E v \in OtherValues(f, chain[i][f]) : Tamper(i, f, v)
    /\ UNCHANGED << workload, nCalls, engineVars, v1Vars >>

LedgerTamperPair ==
    /\ workload = "tamper" /\ nTampers < MaxTampers
    /\ \E i \in 2..Len(chain) :
          \E pr \in OtherPairs(chain[i]) : TamperPair(i, pr[1], pr[2])
    /\ UNCHANGED << workload, nCalls, engineVars, v1Vars >>

LedgerRestore ==
    /\ workload = "tamper"
    /\ Restore
    /\ UNCHANGED << workload, nCalls, engineVars, v1Vars >>

LedgerRead ==
    /\ workload = "append" /\ nCalls < MaxAppends
    /\ \E op \in { "verifyIntegrity", "getLatestHash" } : ReadLedger(op)
    /\ nCalls' = nCalls + 1
    /\ UNCHANGED << workload, engineVars, v1Vars >>

LedgerGetChain ==
    /\ workload = "tamper"
    /\ GetChain
    /\ UNCHANGED << workload, nCalls, engineVars, v1Vars >>

NextLedger ==
    \/ LedgerAdd \/ LedgerVerifyAndAdd \/ LedgerRead \/ LedgerGetChain
    \/ LedgerTamper \/ LedgerTamperPair \/ LedgerRestore

SpecLedger == InitLedger /\ [][NextLedger]_vars

----------------------------------------------------------------------------
(* Claims about SentinelEngine.evaluate (src/unnamed/part_000) *)

Returned == result # NoResult

ComponentSum(r) ==
    r.component_scores.geo_risk + r.component_scores.velocity_risk
    + r.component_scores.device_risk + r.component_scores.amount_risk
    + r.component_scores.network_risk + r.component_scores.behavioral_risk

\* C1: every result evaluate returns has 0 <= final_risk_score <= 100, the
\* blocked short-circuit, the multiplier, the coordinated amplifier and the
\* escalation raise included.
C1_ScoreInRange ==
    Returned => (0 <= result.final_risk_score /\ result.final_risk_score <= 100)

\* the component scores sum to more than 100 and the result is capped at 100
C1_Witness ==
    /\ Returned
    /\ call.profile.account_status # "BLOCKED"
    /\ ComponentSum(result) > 100
    /\ result.final_risk_score = 100

\* C2: a result with decision APPROVE has final_risk_score < 40 and reason_code OK.
C2_ApproveIsLowAndOK ==
    (Returned /\ result.decision = "APPROVE") =>
        (result.final_risk_score < 40 /\ result.reason_code = "OK")

\* an approval of a transaction that carries some risk and some reasoning
C2_Witness ==
    /\ Returned
    /\ result.decision = "APPROVE"
    /\ result.final_risk_score >= 30
    /\ result.reasoning # << >>

\* The four conditions of the secondary pre-OTP check, read off the state the
\* call saw: the user's retained transactions, the detector once the
\* transaction is recorded, and the user's step-up timestamps.
C3_UserTxs == { i \in 1..Len(call.history) : call.history[i].user_id = call.tx.user_id }

C3_VelocityFail ==
    Cardinality({ i \in C3_UserTxs :
                    call.history[i].timestamp > call.tx.timestamp - 600000 }) > 8

C3_DeviceFail ==
    Cardinality({ call.history[i].device_id :
                    i \in { j \in C3_UserTxs :
                              call.history[j].timestamp > call.tx.timestamp - 300000 } }
                \cup { call.tx.device_id }) > 2

C3_CoordFail ==
    Cardinality({ events[i].user_id :
                    i \in { j \in 1..Len(events) :
                              /\ call.tx.timestamp - events[j].timestamp <= 120000
                              /\ events[j].merchant_category = call.tx.merchant_id
                              /\ 100 * events[j].amount >= 95 * call.tx.amount
                              /\ 100 * events[j].amount <= 105 * call.tx.amount } }) >= 5

C3_StepUpFail ==
    /\ call.tx.user_id \in DOMAIN call.escalation
    /\ Cardinality({ i \in 1..Len(call.escalation[call.tx.user_id]) :
                       call.escalation[call.tx.user_id][i]
                           > call.tx.timestamp - 900000 }) >= 3

C3_SecondaryFailed ==
    C3_VelocityFail \/ C3_DeviceFail \/ C3_CoordFail \/ C3_StepUpFail

\* C3: decision = BLOCK exactly when final_risk_score >= 70, or
\* escalation_override is set, or the profile's account_status is BLOCKED, or
\* the secondary pre-OTP check (more than 8 transactions in 10 min, more than
\* 2 recent devices, a coordinated cluster, or 3 or more recent step-ups)
\* failed for a score in 40..69.
C3_BlockIff ==
    Returned =>
        ( result.decision = "BLOCK" <=>
            \/ result.final_risk_score >= 70
            \/ result.escalation_override
            \/ call.profile.account_status = "BLOCKED"
            \/ /\ result.final_risk_score \in 40..69
               /\ C3_SecondaryFailed )

\* a block below 70 that only the secondary check explains
C3_Witness ==
    /\ Returned
    /\ result.decision = "BLOCK"
    /\ result.final_risk_score \in 40..69
    /\ ~result.escalation_override
    /\ call.profile.account_status # "BLOCKED"
    /\ C3_SecondaryFailed

\* C4: the thresholds are 40 and 70.  For a non-BLOCKED account with no
\* override firing (no escalation block, secondary check passing) a score
\* below 40 gives APPROVE, a score in 40..69 gives STEP_UP, a score of 70 or
\* more gives BLOCK, and STEP_UP is returned only for scores in 40..69; this
\* for the results of both SentinelEngine.evaluate in the repository.
C4_ByThresholds(r) ==
    /\ r.final_risk_score < 40 => r.decision = "APPROVE"
    /\ r.final_risk_score \in 40..69 => r.decision = "STEP_UP"
    /\ r.final_risk_score >= 70 => r.decision = "BLOCK"
    /\ r.decision = "STEP_UP" => r.final_risk_score \in 40..69

C4_Thresholds ==
    /\ ( /\ Returned
         /\ call.profile.account_status # "BLOCKED"
         /\ ~result.escalation_override
         /\ ~C3_SecondaryFailed ) => C4_ByThresholds(result)
    /\ v1Result # NoResult => C4_ByThresholds(v1Result)

\* C5: evaluate with a profile whose account_status is BLOCKED returns
\* final_risk_score 100, six component scores of 0, decision BLOCK and
\* reason_code ERR_BLOCKED_USER, and getHistory for that user is the same
\* before and after the call.
C5_BlockedShortCircuit ==
    (Returned /\ call.profile.account_status = "BLOCKED") =>
        /\ result.final_risk_score = 100
        /\ \A k \in DOMAIN result.component_scores : result.component_scores[k] = 0
        /\ DOMAIN result.component_scores =
               { "geo_risk", "velocity_risk", "device_risk",
                 "amount_risk", "network_risk", "behavioral_risk" }
        /\ result.decision = "BLOCK"
        /\ result.reason_code = "ERR_BLOCKED_USER"
        /\ getHistory(call.tx.user_id) = UserHistory(call.history, call.tx.user_id)

\* a blocked account's call on an engine that already retains the user's history
C5_Witness ==
    /\ Returned
    /\ call.profile.account_status = "BLOCKED"
    /\ Len(call.history) >= 2
    /\ getHistory(call.tx.user_id) # << >>

----------------------------------------------------------------------------
(* Claims about ImmutableLedger (src/src/engine/ImmutableLedger.ts) *)

Linked(ch) == \A i \in 2..Len(ch) : ch[i].previous_hash = ch[i - 1].current_hash

\* C6: after any sequence of append and verifyAndAppend calls on a fresh
\* ledger, with no in-place mutation of entries, verifyIntegrity() is true and
\* every entry after the genesis has the previous entry's current_hash as its
\* previous_hash.
C6_IntactAfterAppends ==
    nTampers = 0 => (verifyIntegrity(chain) /\ Linked(chain))

\* three appends, of both kinds, on an untouched ledger
C6_Witness ==
    /\ nTampers = 0
    /\ Len(chain) = 4
    /\ ledgerRet.op = "verifyAndAdd"
    /\ ledgerRet.before[Len(ledgerRet.before)].transaction_id # GenesisId

Altered == tampered # NoTamper

\* C7: after any sequence of appends, changing any single field of any entry
\* of the chain, the genesis entry included, to a different value makes
\* verifyIntegrity() return false.
C7_EveryTamperDetected ==
    Altered => ~verifyIntegrity(chain)

ScoreAltered ==
    /\ Altered
    /\ tampered[1].field = "final_risk_score"
    /\ tampered[1].at >= 2

\* C8: after one or more appends, changing final_risk_score of an appended
\* (non-genesis) entry to a different value makes verifyIntegrity() return
\* false, and a verifyAndAppend made while the entry is changed returns
\* ERR_CHAIN_MISMATCH and leaves the chain length unchanged.
C8_ScoreTamperDetected ==
    /\ ScoreAltered => ~verifyIntegrity(chain)
    /\ ( /\ ledgerRet.op = "verifyAndAdd"
         /\ ledgerRet.during # NoTamper
         /\ ledgerRet.during[1].field = "final_risk_score"
         /\ ledgerRet.during[1].at >= 2 ) =>
            /\ ledgerRet.ok = FALSE
            /\ ledgerRet.reason = "ERR_CHAIN_MISMATCH"
            /\ Len(ledgerRet.after) = Len(ledgerRet.before)

\* the entry plain append(result) puts on the chain ch at time now
C9_PlainAppendEntry(ch, r, now) ==
    [index            |-> Len(ch),
     transaction_id   |-> r.transaction_id,
     timestamp        |-> now,
     final_risk_score |-> r.final_risk_score,
     decision         |-> r.decision,
     previous_hash    |-> ch[Len(ch)].current_hash,
     current_hash     |-> calculateHash(Len(ch), ch[Len(ch)].current_hash,
                                        r.transaction_id, r.final_risk_score),
     data_hash        |-> OrEmpty(sha256(JSONStringify(r)))]

\* C9: verifyAndAppend(result) returns ERR_CHAIN_MISMATCH and leaves the whole
\* chain unchanged when verifyIntegrity() is false; when it is true it appends
\* exactly the entry plain append(result) would have appended and returns it.
C9_VerifyAndAppend ==
    ledgerRet.op = "verifyAndAdd" =>
        IF verifyIntegrity(ledgerRet.before)
        THEN /\ ledgerRet.ok
             /\ ledgerRet.entry =
                    << C9_PlainAppendEntry(ledgerRet.before, ledgerRet.arg, ledgerRet.now) >>
             /\ ledgerRet.after = ledgerRet.before \o ledgerRet.entry
        ELSE /\ ~ledgerRet.ok
             /\ ledgerRet.reason = "ERR_CHAIN_MISMATCH"
             /\ ledgerRet.entry = NoEntry
             /\ ledgerRet.after = ledgerRet.before

\* a verifyAndAppend refused on a chain of several entries
C9_Witness ==
    /\ ledgerRet.op = "verifyAndAdd"
    /\ ~ledgerRet.ok
    /\ Len(ledgerRet.before) >= 3
    /\ chain = ledgerRet.before

\* C10: after N successful appends (append or successful verifyAndAppend) on a
\* fresh ledger whose entries are as appended, the chain has N+1 entries,
\* entry i has index i, entry 0 is the genesis entry with decision "GENESIS",
\* and entry k carries the transaction_id and final_risk_score of the k-th
\* appended result.
C10_ChainMirrorsAppends ==
    ~Altered =>
        /\ Len(chain) = Len(appended) + 1
        /\ \A i \in 1..Len(chain) : chain[i].index = i - 1
        /\ chain[1].decision = "GENESIS"
        /\ chain[1].transaction_id = GenesisId
        /\ \A k \in 1..Len(appended) :
              /\ chain[k + 1].transaction_id = appended[k].transaction_id
              /\ chain[k + 1].final_risk_score = appended[k].final_risk_score

\* three different results appended, by both operations
C10_Witness ==
    /\ ~Altered
    /\ Len(appended) = 3
    /\ appended[1] # appended[2]
    /\ appended[2] # appended[3]
    /\ ledgerRet.op = "addEntry"

\* C11: for every entry of the chain, the genesis entry included, the hash of
\* index, previous_hash, transaction_id and final_risk_score, taken from the
\* entry's own stored fields, is the entry's stored current_hash.
C11_HashOfOwnFields ==
    ~Altered =>
        \A i \in 1..Len(chain) :
            chain[i].current_hash =
                calculateHash(chain[i].index, chain[i].previous_hash,
                              chain[i].transaction_id, chain[i].final_risk_score)

\* C12: the ledger is append-only.  After any ledger operation (append,
\* verifyAndAppend, verifyIntegrity, getLatestHash, getChain) the entries that
\* were in the chain before it are unchanged, field for field, and in the same
\* positions.
C12_AppendOnly ==
    ledgerRet # NoReturn =>
        /\ Len(ledgerRet.after) >= Len(ledgerRet.before)
        /\ \A i \in 1..Len(ledgerRet.before) : ledgerRet.after[i] = ledgerRet.before[i]

\* an append onto a chain that already holds appended entries
C12_Witness ==
    /\ ledgerRet # NoReturn
    /\ ledgerRet.op \in { "addEntry", "verifyAndAdd" }
    /\ Len(ledgerRet.before) >= 3
    /\ Len(ledgerRet.after) = Len(ledgerRet.before) + 1

\* the chain with the outstanding assignment of the holder undone
Untampered == Undo(chain, tampered)

\* C13: getChain() returns an immutable snapshot.  The list a caller obtained
\* from getChain() is still what it was when the ledger has appended since,
\* and an assignment the caller makes to an entry of that list changes
\* neither the ledger's chain nor what verifyIntegrity() returns.
C13_SnapshotIsImmutable ==
    obtained # NoList =>
        /\ ~Altered => getChain = obtained[1]
        /\ Altered => chain = Untampered
        /\ verifyIntegrity(chain) = verifyIntegrity(Untampered)

\* C14: the hash primitive is total.  For every appended result, whatever
\* characters its transaction_id and reasoning hold, the entry's data_hash is
\* the digest of the serialised result and data_hash and current_hash are
\* digests, never the empty string.
C14_HashTotal ==
    ~Altered =>
        \A k \in 1..Len(appended) :
            /\ sha256(JSONStringify(appended[k])) # << >>
            /\ chain[k + 1].data_hash = sha256(JSONStringify(appended[k]))[1]
            /\ chain[k + 1].data_hash # << >>
            /\ chain[k + 1].current_hash # << >>

----------------------------------------------------------------------------
(* Claims about the escalation override, the coordinated amplifier, the
   reasoning strings, determinism and the history (src/unnamed/part_000),
   stated over the log of the calls made *)

\* the call that has just returned, and the calls the same user made before it
LastCall == log[Len(log)]
EarlierCallsOf(user) ==
    { i \in 1..(Len(log) - 1) : log[i].tx.user_id = user }

\* the user's calls came with non-decreasing timestamps
InTimeOrder(user) ==
    LET mine == SelectSeq(log, LAMBDA c : c.tx.user_id = user)
    IN  \A k \in 1..(Len(mine) - 1) : mine[k].tx.timestamp <= mine[k + 1].tx.timestamp

\* the STEP_UP decisions the user received in the 15 minutes before the
\* transaction of the last call, with no BLOCK of the user after them
StepUpsBefore(user) ==
    { i \in EarlierCallsOf(user) :
        /\ log[i].decision = "STEP_UP"
        /\ log[i].tx.timestamp > LastCall.tx.timestamp - 15 * 60 * 1000
        /\ ~\E j \in (i + 1)..(Len(log) - 1) :
               log[j].tx.user_id = user /\ log[j].decision = "BLOCK" }

\* the score of the result before the escalation raise: the components'
\* sum, times the profile's multiplier, times 1.25 when coordinated, clamped
MultipliedSum(r, profile) ==
    IF profile.risk_category = "HIGH" THEN (ComponentSum(r) * 12) \div 10
    ELSE IF profile.risk_category = "MEDIUM" THEN (ComponentSum(r) * 11) \div 10
    ELSE ComponentSum(r)
ScoreBeforeRaise(r, profile) ==
    LET amplified == IF r.coordinated_attack
                     THEN (MultipliedSum(r, profile) * 125) \div 100
                     ELSE MultipliedSum(r, profile)
    IN  IF profile.account_status = "BLOCKED" THEN 100
        ELSE IF amplified > 100 THEN 100 ELSE amplified

AfterThreeStepUps ==
    /\ Returned
    /\ Cardinality(StepUpsBefore(LastCall.tx.user_id)) >= 3
    /\ InTimeOrder(LastCall.tx.user_id)

IsEscalationBlock(r) ==
    /\ r.decision = "BLOCK"
    /\ r.escalation_override
    /\ r.reason_code = "ERR_ESCALATION_OVERRIDE"
    /\ r.final_risk_score >= 70

\* C15 (as stated): when a user has received three STEP_UP decisions within 15
\* minutes, a fourth transaction of that user within the same 15 minutes whose
\* score is >= 60 gets BLOCK with escalation_override, reason_code
\* ERR_ESCALATION_OVERRIDE and final_risk_score >= 70.
C15_OverrideFromSixty ==
    (AfterThreeStepUps /\ ScoreBeforeRaise(result, call.profile) >= 60)
        => IsEscalationBlock(result)

\* C15 (amended): the same, for a fourth transaction whose score is in 60..69;
\* a score of 70 or more is a BLOCK without the override.
C15_OverrideInBand ==
    /\ (AfterThreeStepUps /\ ScoreBeforeRaise(result, call.profile) \in 60..69)
           => (IsEscalationBlock(result) /\ result.final_risk_score = 70)
    /\ (AfterThreeStepUps /\ ScoreBeforeRaise(result, call.profile) >= 70)
           => (result.decision = "BLOCK" /\ ~result.escalation_override)

\* a fourth transaction scoring 60..69 after three step-ups
C15_Witness ==
    /\ AfterThreeStepUps
    /\ ScoreBeforeRaise(result, call.profile) \in 60..69
    /\ result.escalation_override

\* the calls, before the last one, made by other users with the merchant
\* category and the amount of the last call, at most 30 seconds from it
SameClusterBefore ==
    { i \in 1..(Len(log) - 1) :
        /\ log[i].tx.user_id # LastCall.tx.user_id
        /\ MerchantCategoryOf(log[i].tx) = MerchantCategoryOf(LastCall.tx)
        /\ log[i].tx.amount = LastCall.tx.amount
        /\ log[i].tx.timestamp - LastCall.tx.timestamp \in (0 - 30000)..30000 }

\* the last call is the fifth of five distinct users' calls of one cluster
FifthOfCluster ==
    /\ Returned
    /\ Cardinality({ log[i].tx.user_id : i \in SameClusterBefore }) >= 4

\* ... all of them made with a profile that is not BLOCKED, and no call with a
\* timestamp more than two minutes after theirs made since the first of them
FifthOfRecordedCluster ==
    /\ Returned
    /\ LastCall.account_status # "BLOCKED"
    /\ LET counted == { i \in SameClusterBefore :
                          /\ log[i].account_status # "BLOCKED"
                          /\ Len(log) - i < COORD_EVENT_CAP
                          /\ \A j \in (i + 1)..Len(log) :
                                log[j].account_status = "BLOCKED"
                                \/ log[j].tx.timestamp - log[i].tx.timestamp <= 2 * 60 * 1000 }
       IN  Cardinality({ log[i].tx.user_id : i \in counted }) >= 4

HasCoordinatedReason(r) ==
    \E k \in 1..Len(r.reasoning) : r.reasoning[k][1] = "ERR_COORDINATED_ATTACK"

Amplified(r, profile) ==
    LET amplified == (MultipliedSum(r, profile) * 125) \div 100
        clamped   == IF amplified > 100 THEN 100 ELSE amplified
    IN  /\ r.coordinated_attack
        /\ HasCoordinatedReason(r)
        /\ r.final_risk_score = IF r.escalation_override THEN Max(clamped, 70) ELSE clamped

BlockedAsCoordinated(r) ==
    r.decision = "BLOCK" /\ r.reason_code = "ERR_COORDINATED_ATTACK"

ReasonCodes ==
    { "ERR_VELOCITY_LIMIT", "ERR_GEO_IMPOSSIBLE", "ERR_BEHAVIORAL_SHIFT",
      "ERR_COORDINATED_ATTACK", "ERR_ESCALATION_OVERRIDE", "ERR_CHAIN_MISMATCH",
      "ERR_BLOCKED_USER", "OK" }

\* C17: in every result returned by evaluate, every string of reasoning begins
\* with one of the codes of the ReasonCode set followed by ": ".
C17_ReasonsCarryACode ==
    Returned => \A k \in 1..Len(result.reasoning) : result.reasoning[k][1] \in ReasonCodes

TimingFields == { "processing_time_ms", "latency_breach" }

SameButTiming(r1, r2) ==
    /\ DOMAIN r1 = DOMAIN r2
    /\ \A f \in DOMAIN r1 \ TimingFields : r1[f] = r2[f]

\* C18: two fresh engines fed the same sequence of (transaction, profile)
\* pairs return, call by call, results equal in every field except
\* processing_time_ms and latency_breach, and hold equal history,
\* coordinated-event and escalation state.
C18_Deterministic ==
    workload = "twin" =>
        /\ SameButTiming(result, twin.result)
        /\ twin.transactionHistory = transactionHistory
        /\ twin.events = events
        /\ twin.escalation = escalation

\* the two engines took different times, one of them is in latency breach,
\* and both answered STEP_UP to a third call
C18_Witness ==
    /\ workload = "twin" /\ nCalls = MaxTwin
    /\ result.decision = "STEP_UP"
    /\ result.processing_time_ms # twin.result.processing_time_ms
    /\ result.latency_breach # twin.result.latency_breach
    /\ Len(transactionHistory) >= 2


\* the calls made with a profile that is not BLOCKED, in the order made
RecordedCalls == SelectSeq(log, LAMBDA c : c.account_status # "BLOCKED")

\* the transactions of the most recent min(n, 1000) of the calls rec
MostRecent(rec) ==
    LET n == Len(rec)
        k == IF n < HISTORY_CAP THEN n ELSE HISTORY_CAP
    IN  [i \in 1..k |-> rec[n - k + i].tx]

UsersCalled == { log[i].tx.user_id : i \in 1..Len(log) }

RetainedInOrder ==
    LET recorded == RecordedCalls
        expected == MostRecent(recorded)
    IN  /\ transactionHistory = expected
        /\ \A u \in UsersCalled :
              getHistory(u) = SelectSeq(expected, LAMBDA t : t.user_id = u)

JustEvaluatedIsLast ==
    LET mine == getHistory(LastCall.tx.user_id)
    IN  mine # << >> /\ mine[Len(mine)] = LastCall.tx

\* C19 (as stated): after any sequence of evaluate calls the retained history
\* is exactly the most recent min(n, 1000) transactions evaluated with a
\* non-BLOCKED profile, in submission order; getHistory(u) returns the retained
\* transactions of u in that order, and the transaction just evaluated is its
\* last element.
C19_HistoryOfLastThousand ==
    Returned => RetainedInOrder /\ JustEvaluatedIsLast

\* C19 (amended): the same, the transaction just evaluated being the last
\* element of its user's history when its profile was not BLOCKED.
C19_HistoryOfLastThousandRecorded ==
    Returned =>
        /\ RetainedInOrder
        /\ LastCall.account_status # "BLOCKED" => JustEvaluatedIsLast

\* more than a thousand transactions were recorded, so the oldest were evicted
C19_Witness ==
    /\ Returned
    /\ Len(RecordedCalls) > HISTORY_CAP + 1
    /\ LastCall.account_status # "BLOCKED"
    /\ Len(getHistory("u2")) > 0


AtMaximum == Returned /\ call.tx.amount = call.profile.max_transaction_amount

AmountReasonTexts ==
    { "Amount exceeds max", "Exceeds daily transaction limit", "Amount spike" }

AmountReasons(r) ==
    { r.reasoning[k][2] : k \in 1..Len(r.reasoning) } \cap AmountReasonTexts

\* C20 (as stated): if amount is exactly equal to profile.max_transaction_amount
\* the Amount evaluator applies no penalty: amount_risk = 0 and no amount
\* reason.
C20_NoPenaltyAtMaximum ==
    AtMaximum =>
        /\ result.component_scores.amount_risk = 0
        /\ AmountReasons(result) = {}

\* C20 (amended): if amount is exactly equal to profile.max_transaction_amount
\* the "exceeds max" penalty is not applied; the amount is still measured
\* against the daily limit (45) and, failing that, against three times the
\* average (20).
C20_NoMaximumPenaltyAtMaximum ==
    AtMaximum /\ call.profile.account_status # "BLOCKED" =>
        LET overDaily == call.tx.amount > call.profile.daily_transaction_limit
            spike     == call.tx.amount > 3 * call.profile.avg_transaction_amount
        IN  /\ result.component_scores.amount_risk =
                   IF overDaily THEN 45 ELSE IF spike THEN 20 ELSE 0
            /\ AmountReasons(result) =
                   IF overDaily THEN { "Exceeds daily transaction limit" }
                   ELSE IF spike THEN { "Amount spike" } ELSE {}

\* a payment of exactly the maximum that is an amount spike
C20_Witness ==
    /\ AtMaximum /\ call.profile.account_status # "BLOCKED"
    /\ result.component_scores.amount_risk = 20
    /\ "Amount spike" \in AmountReasons(result)

\* the call just made came from a user with no retained history, with a
\* profile that is not BLOCKED
FirstOfUser ==
    /\ Returned
    /\ call.profile.account_status # "BLOCKED"
    /\ UserHistory(call.history, call.tx.user_id) = << >>

DeviceOfFirst ==
    result.component_scores.device_risk =
        IF call.tx.device_id # call.profile.registered_device_id THEN 25 ELSE 0

\* C21 (as stated): for a user with no retained history the Velocity evaluator
\* contributes 0 and the Device evaluator contributes 0 except for the
\* unregistered-device penalty, for every transaction and profile.
C21_NothingWithoutHistory ==
    FirstOfUser =>
        /\ result.component_scores.velocity_risk = 0
        /\ DeviceOfFirst

\* C21 (amended): for a user with no retained history the Velocity evaluator
\* contributes 0 except for the failed-attempts penalty (35 when the profile
\* has more than 3 failed attempts in the last 10 minutes), and the Device
\* evaluator contributes 0 except for the unregistered-device penalty.
C21_OnlyProfilePenaltiesWithoutHistory ==
    FirstOfUser =>
        /\ result.component_scores.velocity_risk =
               IF call.profile.failed_attempts_last_10_min > 3 THEN 35 ELSE 0
        /\ DeviceOfFirst

\* a first Rs 1 payment from an unregistered device, 4 failed attempts
C21_Witness ==
    /\ FirstOfUser
    /\ call.tx.amount = 1
    /\ result.component_scores.velocity_risk = 35
    /\ result.component_scores.device_risk = 25

\* the call just made has the hour that ends the profile's usual login times
AtEndHour ==
    /\ Returned
    /\ call.profile.account_status # "BLOCKED"
    /\ HourOf(call.tx.timestamp) = call.profile.usual_login_times[2]

\* the result carries no unusual-hour reason and its behavioural score is made
\* of the dormant-account and KYC penalties alone
NoUnusualHourPenalty ==
    LET others == (IF call.profile.account_status = "DORMANT" THEN 45 ELSE 0)
                  + (IF call.profile.kyc_status = "FAILED" THEN 35
                     ELSE IF call.profile.kyc_status = "PENDING" THEN 10 ELSE 0)
    IN  /\ \A k \in 1..Len(result.reasoning) :
              result.reasoning[k][2] # "Transaction at unusual hour"
        /\ result.component_scores.behavioral_risk = IF others > 65 THEN 65 ELSE others

\* C22 (as stated): for every profile with usual_login_times = [start, end]
\* (hours 0..23), a transaction whose hour equals end gets no unusual-hour
\* penalty from the Behavioral evaluator.
C22_EndHourIsUsual ==
    AtEndHour => NoUnusualHourPenalty

\* C22 (amended): the same for every profile with start <= end.
C22_EndHourIsUsualWhenOrdered ==
    AtEndHour /\ call.profile.usual_login_times[1] <= call.profile.usual_login_times[2]
        => NoUnusualHourPenalty

\* a payment at 23:00 by a dormant user whose usual hours are 8 to 23
C22_Witness ==
    /\ AtEndHour
    /\ call.profile.usual_login_times = << 8, 23 >>
    /\ result.component_scores.behavioral_risk = 45

\* the call just made is the second transaction of an ACTIVE, VERIFIED,
\* LOW-risk user, both from the registered device, on a normal network within
\* usual hours, 60 seconds after the first and from another city, more than
\* 800 km/h away
SecondFarAway ==
    /\ Returned
    /\ call.profile.account_status = "ACTIVE"
    /\ call.profile.kyc_status = "VERIFIED"
    /\ call.profile.risk_category = "LOW"
    /\ call.tx.device_id = call.profile.registered_device_id
    /\ call.tx.network_type \notin { "VPN", "UNKNOWN" }
    /\ HourOf(call.tx.timestamp) >= call.profile.usual_login_times[1]
    /\ HourOf(call.tx.timestamp) <= call.profile.usual_login_times[2]
    /\ LET before == UserHistory(call.history, call.tx.user_id)
       IN  /\ Len(before) = 1
           /\ before[1].device_id = call.profile.registered_device_id
           /\ call.tx.timestamp - before[1].timestamp = 60000
           /\ call.tx.location.city # before[1].location.city
           /\ 9 * haversine(before[1].location.lat, before[1].location.lon,
                            call.tx.location.lat, call.tx.location.lon) > 2 * 60000

\* no other signal: the city is not the registered one, the amount is in no
\* tier of the Amount evaluator, the profile has at most 3 failed attempts and
\* the transaction is in no coordinated cluster
NoOtherSignal ==
    /\ call.tx.location.city # call.profile.registered_city
    /\ call.tx.amount <= call.profile.max_transaction_amount
    /\ call.tx.amount <= call.profile.daily_transaction_limit
    /\ call.tx.amount <= 3 * call.profile.avg_transaction_amount
    /\ call.profile.failed_attempts_last_10_min <= 3
    /\ ~result.coordinated_attack

StepUpForTravel ==
    /\ result.component_scores.geo_risk = 65
    /\ result.final_risk_score = 65
    /\ result.decision = "STEP_UP"
    /\ result.reason_code = "ERR_GEO_IMPOSSIBLE"

\* C23 (as stated): for an ACTIVE, VERIFIED, LOW-risk user using the registered
\* device on a normal network within usual hours, a second transaction 60
\* seconds after the first from a different city far enough to imply more than
\* 800 km/h gets geo_risk = 65, final_risk_score = 65, decision = STEP_UP and
\* reason_code = ERR_GEO_IMPOSSIBLE.
C23_ImpossibleTravelStepsUp ==
    SecondFarAway => StepUpForTravel

\* C23 (amended): the same when the second transaction is away from the
\* registered city, its amount is in no Amount tier, the profile has at most 3
\* failed attempts and the transaction is in no coordinated cluster.
C23_ImpossibleTravelAloneStepsUp ==
    SecondFarAway /\ NoOtherSignal => StepUpForTravel

\* Mumbai, then Delhi a minute later
C23_Witness ==
    /\ SecondFarAway /\ NoOtherSignal
    /\ call.tx.location.city = "Delhi"
    /\ call.tx.amount = 1500

\* the ceilings of the six evaluators
Ceilings ==
    [geo_risk |-> 65, velocity_risk |-> 65, device_risk |-> 55,
     amount_risk |-> 75, network_risk |-> 30, behavioral_risk |-> 65]

\* C24: in every result of evaluate each component score is a non-negative
\* integer not above its evaluator's ceiling: geo <= 65, velocity <= 65,
\* device <= 55, amount <= 75, network <= 30, behavioral <= 65.
C24_ComponentsWithinCeilings ==
    Returned =>
        /\ DOMAIN result.component_scores = DOMAIN Ceilings
        /\ \A c \in DOMAIN Ceilings : result.component_scores[c] \in 0..Ceilings[c]

\* a dormant account with failed KYC: 45 + 35 is cut to the ceiling of 65
C24_Witness ==
    /\ Returned
    /\ call.profile.account_status = "DORMANT" /\ call.profile.kyc_status = "FAILED"
    /\ result.component_scores.behavioral_risk = 65

\* the step-up timestamps the tracker holds for a user
StepUpsOf(state, userId) == IF userId \in DOMAIN state THEN state[userId] ELSE << >>

\* scores and timestamps at which shouldForceBlock is asked after the call
ProbeScores == { 60, 100 }
ProbeTimes == { call.tx.timestamp, call.tx.timestamp + 60000 }

Cleared ==
    /\ StepUpsOf(escalation, call.tx.user_id) = << >>
    /\ \A score \in ProbeScores, ts \in ProbeTimes :
          ~shouldForceBlock(escalation, call.tx.user_id, score, ts)

\* C25 (as stated): every evaluate call that returns decision = BLOCK for a
\* user leaves that user's list of step-up timestamps empty, so that
\* immediately afterwards shouldForceBlock is false for that user at any score
\* and timestamp.
C25_BlockClears ==
    Returned /\ result.decision = "BLOCK" => Cleared

\* C25 (amended): the same for every evaluate call with a profile that is not
\* BLOCKED (the short-circuit for a BLOCKED account returns without touching
\* the tracker).
C25_BlockOfOpenAccountClears ==
    Returned /\ result.decision = "BLOCK" /\ call.profile.account_status # "BLOCKED"
        => Cleared

\* a BLOCK of a user who had step-ups on record
C25_Witness ==
    /\ Returned /\ result.decision = "BLOCK"
    /\ call.profile.account_status # "BLOCKED"
    /\ Len(StepUpsOf(call.escalation, call.tx.user_id)) >= 3

\* the calls so far with the merchant category of the last call and an amount
\* within 5% of its amount, stamped in the two minutes that start at w
ClusterIn(w) ==
    { i \in 1..Len(log) :
        /\ MerchantCategoryOf(log[i].tx) = MerchantCategoryOf(LastCall.tx)
        /\ 100 * log[i].tx.amount >= 95 * LastCall.tx.amount
        /\ 100 * log[i].tx.amount <= 105 * LastCall.tx.amount
        /\ log[i].tx.timestamp >= w
        /\ log[i].tx.timestamp <= w + 2 * 60 * 1000 }

\* C26: coordinated_attack is true for a transaction only if at least 5
\* distinct users (the current one counted) have submitted transactions with
\* the same merchant category and an amount within 5% of its amount whose
\* timestamps all lie within a 2-minute window, for any order in which
\* timestamps arrive.
C26_CoordinatedOnlyInWindow ==
    Returned /\ result.coordinated_attack =>
        \E j \in 1..Len(log) :
            /\ Len(log) \in ClusterIn(log[j].tx.timestamp)
            /\ Cardinality({ log[i].tx.user_id : i \in ClusterIn(log[j].tx.timestamp) }) >= 5

\* the first code, in the priority order of the engine, that some string of
\* reasons begins with
CodePresent(reasons, code) == \E k \in 1..Len(reasons) : reasons[k][1] = code
FirstCodeOf(reasons) ==
    IF CodePresent(reasons, "ERR_CHAIN_MISMATCH") THEN "ERR_CHAIN_MISMATCH"
    ELSE IF CodePresent(reasons, "ERR_ESCALATION_OVERRIDE") THEN "ERR_ESCALATION_OVERRIDE"
    ELSE IF CodePresent(reasons, "ERR_COORDINATED_ATTACK") THEN "ERR_COORDINATED_ATTACK"
    ELSE IF CodePresent(reasons, "ERR_GEO_IMPOSSIBLE") THEN "ERR_GEO_IMPOSSIBLE"
    ELSE IF CodePresent(reasons, "ERR_VELOCITY_LIMIT") THEN "ERR_VELOCITY_LIMIT"
    ELSE IF CodePresent(reasons, "ERR_BEHAVIORAL_SHIFT") THEN "ERR_BEHAVIORAL_SHIFT"
    ELSE "OK"

\* the call just made scored 40..69 and the tracker did not force a block
InBandNotForced ==
    /\ Returned
    /\ call.profile.account_status # "BLOCKED"
    /\ result.final_risk_score \in 40..69
    /\ ~result.escalation_override

\* what the call found: the user's retained transactions of the last 10
\* minutes, the devices of the last 5 minutes with the current one, the
\* step-ups of the last 15 minutes
RecentOfUser ==
    LET mine == UserHistory(call.history, call.tx.user_id)
    IN  Len(SelectSeq(mine, LAMBDA t : t.timestamp > call.tx.timestamp - 10 * 60 * 1000))
DevicesOfUser ==
    LET mine == UserHistory(call.history, call.tx.user_id)
    IN  { mine[k].device_id :
            k \in { n \in 1..Len(mine) : mine[n].timestamp > call.tx.timestamp - 5 * 60 * 1000 } }
        \cup { call.tx.device_id }
StepUpsOfUser ==
    Len(SelectSeq(StepUpsOf(call.escalation, call.tx.user_id),
                  LAMBDA t : t > call.tx.timestamp - 15 * 60 * 1000))

SecondaryFails ==
    \/ RecentOfUser > 8
    \/ Cardinality(DevicesOfUser) > 2
    \/ result.coordinated_attack
    \/ StepUpsOfUser >= 3

\* C27: for a final score in 40..69 where the escalation tracker does not
\* force a block, the decision is BLOCK if the user has more than 8 retained
\* transactions in the last 10 minutes, more than 2 distinct devices in the
\* last 5 minutes (current device included), the coordinated detector reports
\* a cluster, or the user has at least 3 step-ups in the last 15 minutes, and
\* STEP_UP otherwise; in both cases reason_code is primaryReasonCode of the
\* reasoning.
C27_SecondaryCheckDecides ==
    InBandNotForced =>
        /\ result.decision = IF SecondaryFails THEN "BLOCK" ELSE "STEP_UP"
        /\ result.reason_code = FirstCodeOf(result.reasoning)

\* a tenth payment within ten minutes, blocked by the secondary check
C27_Witness ==
    /\ InBandNotForced
    /\ RecentOfUser > 8
    /\ result.decision = "BLOCK"

\* a STEP_UP, or a BLOCK that is not the block of a BLOCKED account, not an
\* escalation override and not a coordinated block at score >= 70
CodeByPriority ==
    /\ Returned
    /\ \/ result.decision = "STEP_UP"
       \/ /\ result.decision = "BLOCK"
          /\ call.profile.account_status # "BLOCKED"
          /\ ~result.escalation_override
          /\ ~(result.coordinated_attack /\ result.final_risk_score >= 70)

\* C28: for every STEP_UP result and every BLOCK result that is neither a
\* BLOCKED-account block, an escalation override nor a coordinated block at
\* score >= 70, reason_code is the first code, in the order
\* ERR_CHAIN_MISMATCH, ERR_ESCALATION_OVERRIDE, ERR_COORDINATED_ATTACK,
\* ERR_GEO_IMPOSSIBLE, ERR_VELOCITY_LIMIT, ERR_BEHAVIORAL_SHIFT, that prefixes
\* some string of the result's reasoning, and OK if none does.
C28_ReasonCodeIsFirstByPriority ==
    CodeByPriority => result.reason_code = FirstCodeOf(result.reasoning)

\* a covered result whose reasoning carries two codes of the priority list
C28_Witness ==
    /\ CodeByPriority
    /\ CodePresent(result.reasoning, "ERR_GEO_IMPOSSIBLE")
    /\ CodePresent(result.reasoning, "ERR_VELOCITY_LIMIT")
    /\ result.reason_code = "ERR_GEO_IMPOSSIBLE"

\* the tier of an amount under a profile: the first that matches
AmountTier(tx, profile) ==
    IF tx.amount > profile.max_transaction_amount THEN 75
    ELSE IF tx.amount > profile.daily_transaction_limit THEN 45
    ELSE IF tx.amount > 3 * profile.avg_transaction_amount THEN 20
    ELSE 0

\* the strings an Amount evaluator of either engine pushed into a reasoning
AmountStrings(reasoning) ==
    SelectSeq(reasoning,
              LAMBDA r : r[2] \in AmountReasonTexts
                                  \cup { "Exceeds Max Limit", "Exceeds Daily Limit",
                                         "Abnormal Amount Spike" })

\* the engine with thresholds 40/70: the call ran the Amount evaluator, which
\* returned the first matching tier and one reason for it
EngineAppliesFirstTier ==
    Returned /\ call.profile.account_status # "BLOCKED" =>
        /\ result.component_scores.amount_risk = AmountTier(call.tx, call.profile)
        /\ Len(AmountStrings(result.reasoning)) =
               IF AmountTier(call.tx, call.profile) = 0 THEN 0 ELSE 1

\* C29: the Amount evaluator applies only the first matching tier:
\* amount_risk is 75 if amount > max_transaction_amount, else 45 if amount >
\* daily_transaction_limit, else 20 if amount > 3 x avg_transaction_amount,
\* else 0, with exactly one reason string when non-zero; it is never a sum
\* of tiers.
C29_FirstMatchingTierOnly ==
    /\ EngineAppliesFirstTier
    /\ v1Result # NoResult =>
          /\ v1Result.component_scores.amount_risk \in {0, 20, 45, 75}
          /\ Len(AmountStrings(v1Result.reasoning)) =
                 IF v1Result.component_scores.amount_risk = 0 THEN 0 ELSE 1

\* an amount over the maximum and over three times the average met the first
\* tier only
EngineFirstTierReached ==
    /\ Returned /\ call.profile.account_status # "BLOCKED"
    /\ call.tx.amount > call.profile.max_transaction_amount
    /\ call.tx.amount > 3 * call.profile.avg_transaction_amount
    /\ result.component_scores.amount_risk = 75

\* a step in which evaluate ran on the engine
EvaluatedNow == Len(log') = Len(log) + 1

\* the event record(tx) stores for a transaction
EventOf(tx) ==
    [user_id           |-> tx.user_id,
     merchant_category |-> MerchantCategoryOf(tx),
     amount            |-> tx.amount,
     timestamp         |-> tx.timestamp]

\* at most 5000 events, none stamped more than 2 minutes before tx
DetectorBounded(evs, tx) ==
    /\ Len(evs) <= 5000
    /\ \A k \in 1..Len(evs) : tx.timestamp - evs[k].timestamp <= 2 * 60 * 1000

\* the detector after the call is the detector before it without the events
\* more than 2 minutes older than tx, with the event of tx behind them, cut
\* to the last 5000; the flag of the result is what detection finds there
OneEventAdded(before, after, tx, flag) ==
    LET kept == SelectSeq(before, LAMBDA e : tx.timestamp - e.timestamp <= 2 * 60 * 1000)
        all  == Append(kept, EventOf(tx))
        drop == IF Len(all) > 5000 THEN Len(all) - 5000 ELSE 0
    IN  /\ after = SubSeq(all, drop + 1, Len(all))
        /\ flag = CoordDetect(after, tx)

\* C30 (as stated): after every record(tx) of the coordinated detector, and
\* hence after every evaluate, the detector holds at most 5000 events and
\* none whose timestamp is more than 2 minutes before tx.timestamp; every
\* evaluate with a non-BLOCKED profile adds exactly one event, for the
\* current transaction, before detection runs.
C30_DetectorBoundedAfterEvaluate ==
    [][ EvaluatedNow =>
          /\ DetectorBounded(events', call'.tx)
          /\ call'.profile.account_status # "BLOCKED" =>
                OneEventAdded(events, events', call'.tx, result'.coordinated_attack) ]_vars

\* C30 (amended): after every record(tx) of the coordinated detector, and
\* hence after every evaluate with a non-BLOCKED profile, the detector holds
\* at most 5000 events and none whose timestamp is more than 2 minutes
\* before tx.timestamp; every evaluate with a non-BLOCKED profile adds
\* exactly one event, for the current transaction, before detection runs.
C30_DetectorBoundedAfterRecord ==
    [][ EvaluatedNow /\ call'.profile.account_status # "BLOCKED" =>
          /\ DetectorBounded(events', call'.tx)
          /\ OneEventAdded(events, events', call'.tx, result'.coordinated_attack) ]_vars

\* the payment after the 5000th of two minutes: the detector is full and the
\* oldest event has gone
C30_Witness ==
    /\ workload = "swarm"
    /\ Returned /\ call.profile.account_status # "BLOCKED"
    /\ nCalls > 5000
    /\ Len(events) = 5000
    /\ events[1].timestamp > T0 + 1
    /\ Last(events) = EventOf(call.tx)

\* a payment 20 minutes after the others: every older event has gone
C30_WitnessPruned ==
    /\ workload = "swarm"
    /\ Returned /\ call.profile.account_status # "BLOCKED"
    /\ nCalls > SwarmStart
    /\ events = << EventOf(call.tx) >>

\* the last n elements of a sequence, the whole of it if it has fewer
LastOf(s, n) == [k \in 1..(IF Len(s) > n THEN n ELSE Len(s)) |->
                    s[k + (IF Len(s) > n THEN Len(s) - n ELSE 0)]]

\* C31: the latency buffer never holds more than 10 samples and holds the
\* most recent ones in order: every evaluate call, the BLOCKED short-circuit
\* included, records exactly one sample (the processing time it returns),
\* evicting the oldest when the buffer would exceed 10.
C31_LatencyBufferRolls ==
    [][ EvaluatedNow =>
          /\ Len(latencyBuffer') <= 10
          /\ latencyBuffer' = LastOf(Append(latencyBuffer, result'.processing_time_ms), 10) ]_vars

\* the eleventh call, a BLOCKED one, has pushed the first sample out
C31_Witness ==
    /\ nCalls = 11
    /\ call.profile.account_status = "BLOCKED"
    /\ Len(latencyBuffer) = 10
    /\ latencyBuffer[10] = SlowMs
    /\ \E k \in 1..9 : latencyBuffer[k] = FastMs

\* C32: a result never combines coordinated_attack = true with decision =
\* STEP_UP: whenever coordinated_attack is true and final_risk_score >= 40
\* the decision is BLOCK.
C32_CoordinatedNeverStepsUp ==
    Returned /\ result.coordinated_attack =>
        /\ result.decision # "STEP_UP"
        /\ result.final_risk_score >= 40 => result.decision = "BLOCK"

\* a cluster found at a score of 40..69: blocked by the secondary check
C32_Witness ==
    /\ Returned /\ result.coordinated_attack
    /\ result.final_risk_score \in 40..69
    /\ ~result.escalation_override
    /\ result.decision = "BLOCK"

\* a BLOCK decided by the pipeline, not the refusal of a BLOCKED account
PipelineBlock(e) == e.decision = "BLOCK" /\ e.account_status # "BLOCKED"

\* the user's transactions were submitted with non-decreasing timestamps
SubmittedInOrder(calls) ==
    \A i \in 1..Len(calls) : \A j \in i..Len(calls) :
        calls[i].tx.timestamp <= calls[j].tx.timestamp

\* the step-ups and pipeline blocks among a user's calls, in order
MarksOf(calls) == SelectSeq(calls, LAMBDA e : e.decision = "STEP_UP" \/ PipelineBlock(e))

\* no four step-ups in a row (no pipeline block between) within 15 minutes
NoFourStepUps(marks) ==
    \A k \in 1..(Len(marks) - 3) :
        (\A m \in 0..3 : marks[k + m].decision = "STEP_UP")
            => marks[k + 3].tx.timestamp - marks[k].tx.timestamp >= 15 * 60 * 1000

\* the last three marks before the call just made are step-ups of the last
\* 15 minutes
ThreeStepUpsInWindow(marks, ts) ==
    /\ Len(marks) >= 3
    /\ \A m \in 0..2 :
          /\ marks[Len(marks) - m].decision = "STEP_UP"
          /\ marks[Len(marks) - m].tx.timestamp > ts - 15 * 60 * 1000

EscalatedBefore(calls) ==
    /\ Len(calls) >= 1
    /\ SubmittedInOrder(calls)
    /\ ThreeStepUpsInWindow(MarksOf(SubSeq(calls, 1, Len(calls) - 1)),
                            calls[Len(calls)].tx.timestamp)

\* C33: for any sequence of evaluate calls in which a user's transaction
\* timestamps are non-decreasing, that user never receives four STEP_UP
\* decisions whose timestamps span less than 15 minutes without a pipeline
\* BLOCK decision for that user between them: once three step-ups lie in the
\* window, every further transaction of the user in the window scoring >= 40
\* is blocked, whatever its score relative to 60.
C33_NoFourthStepUp ==
    /\ \A u \in UsersCalled :
          LET calls == SelectSeq(log, LAMBDA e : e.tx.user_id = u)
          IN  SubmittedInOrder(calls) => NoFourStepUps(MarksOf(calls))
    /\ Returned /\ call.profile.account_status # "BLOCKED" =>
          LET calls == SelectSeq(log, LAMBDA e : e.tx.user_id = call.tx.user_id)
          IN  EscalatedBefore(calls) /\ result.final_risk_score >= 40
                  => result.decision = "BLOCK"

\* a fourth transaction scoring under 60 after three step-ups: blocked by the
\* secondary check, not by the override
C33_Witness ==
    /\ Returned /\ call.profile.account_status # "BLOCKED"
    /\ EscalatedBefore(SelectSeq(log, LAMBDA e : e.tx.user_id = call.tx.user_id))
    /\ result.final_risk_score \in 40..59
    /\ ~result.escalation_override
    /\ result.decision = "BLOCK"

\* without the premise: four step-ups at 10:00 around one at 10:20
C33_OutOfOrder ==
    \A u \in UsersCalled :
        NoFourStepUps(MarksOf(SelectSeq(log, LAMBDA e : e.tx.user_id = u)))

\* the calls of a user before the one just made, and among them the ones
\* after the user's last pipeline block
EarlierOf(user) == SelectSeq(SubSeq(log, 1, Len(log) - 1), LAMBDA e : e.tx.user_id = user)
SinceLastBlock(calls) ==
    LET blocks == { i \in 1..Len(calls) : PipelineBlock(calls[i]) }
        from   == IF blocks = {} THEN 0 ELSE CHOOSE i \in blocks : \A j \in blocks : j <= i
    IN  SubSeq(calls, from + 1, Len(calls))

\* C34: between any two results of the same user that have
\* escalation_override = true there are at least three STEP_UP results of
\* that user (every override result comes after three STEP_UP results of the
\* user that no pipeline BLOCK, an override included, follows); in particular
\* escalation_override is never true on two consecutive evaluations of one
\* user, and every override result has decision BLOCK and final_risk_score
\* exactly 70.
C34_OverridesThreeStepUpsApart ==
    Returned /\ result.escalation_override =>
        /\ result.decision = "BLOCK"
        /\ result.final_risk_score = 70
        /\ Len(SelectSeq(SinceLastBlock(EarlierOf(call.tx.user_id)),
                         LAMBDA e : e.decision = "STEP_UP")) >= 3

\* the second override of a user: the fourth and the eighth of eight risky
\* payments three minutes apart
C34_Witness ==
    /\ Returned /\ result.escalation_override
    /\ Len(EarlierOf(call.tx.user_id)) = 7
    /\ \A k \in 1..7 :
          EarlierOf(call.tx.user_id)[k].decision = IF k = 4 THEN "BLOCK" ELSE "STEP_UP"

\* C35: every result whose decision is STEP_UP or BLOCK has a reason_code
\* other than OK: a final score of 40 or more always comes with at least one
\* reasoning string carrying an error code.
C35_RefusalsCarryACode ==
    Returned /\ result.decision \in { "STEP_UP", "BLOCK" } =>
        /\ result.reason_code \in ReasonCodes \ { "OK" }
        /\ \E k \in 1..Len(result.reasoning) :
               result.reasoning[k][1] \in ReasonCodes \ { "OK" }

\* a step-up for one reason only: the activation of a dormant account (45)
C35_Witness ==
    /\ Returned /\ result.decision = "STEP_UP"
    /\ Len(result.reasoning) = 1
    /\ result.final_risk_score = 45
    /\ result.reason_code = "ERR_BEHAVIORAL_SHIFT"

\* C36: an evaluate call with a BLOCKED profile changes no cross-transaction
\* state except the latency buffer: transaction history, the coordinated
\* detector's events and every user's step-up timestamps are the same after
\* the call as before.
C36_BlockedCallLeavesStateAlone ==
    [][ EvaluatedNow /\ call'.profile.account_status = "BLOCKED" =>
          /\ transactionHistory' = transactionHistory
          /\ events' = events
          /\ \A u \in (DOMAIN escalation) \cup (DOMAIN escalation') \cup { call'.tx.user_id } :
                StepUpsOf(escalation', u) = StepUpsOf(escalation, u) ]_vars

\* a refused call on an engine that holds history, events and step-ups of the
\* same user
C36_Witness ==
    /\ Returned /\ call.profile.account_status = "BLOCKED"
    /\ \E k \in 1..Len(transactionHistory) : transactionHistory[k].user_id = call.tx.user_id
    /\ \A k \in 1..Len(transactionHistory) : transactionHistory[k] # call.tx
    /\ events # << >>
    /\ StepUpsOf(escalation, call.tx.user_id) # << >>

\* C37: in every result, final_risk_score >= min(100, sum of the six
\* component scores): the behavioural multiplier, the coordinated amplifier
\* and the escalation raise never lower the score, so a transaction whose
\* component scores sum to 40 or more is never APPROVEd.
C37_ScoreAtLeastComponentSum ==
    Returned =>
        /\ result.final_risk_score >= (IF ComponentSum(result) > 100 THEN 100 ELSE ComponentSum(result))
        /\ ComponentSum(result) >= 40 => result.decision # "APPROVE"

\* a cluster found for a payment whose components sum to 35: amplified past
\* the threshold
C37_Witness ==
    /\ Returned /\ result.coordinated_attack
    /\ ComponentSum(result) \in 1..39
    /\ result.final_risk_score >= 40

\* the string an entry's hash is computed from
HashInputOf(e) ==
    NumToStr(e.index) \o e.previous_hash \o e.transaction_id \o NumToStr(e.final_risk_score)

\* transaction_id and final_risk_score of an appended entry were changed
\* together
PairAltered == Len(tampered) = 2 /\ tampered[1].at >= 2

\* C38: the chain hash binds its four fields separately: two entries with the
\* same index and previous_hash but different (transaction_id,
\* final_risk_score) pairs never have the same hash input, so changing
\* transaction_id and final_risk_score of an appended entry together, to any
\* different pair, makes verifyIntegrity() return false.
C38_PairTamperDetected ==
    PairAltered =>
        /\ HashInputOf(chain[tampered[1].at]) # HashInputOf(Untampered[tampered[1].at])
        /\ ~verifyIntegrity(chain)

\* the pairs that do not run into one another are told apart
PairTamperDetectedWhenInputsDiffer ==
    PairAltered /\ HashInputOf(chain[tampered[1].at]) # HashInputOf(Untampered[tampered[1].at])
                /\ calculateHash(0, << >>, Untampered[tampered[1].at].transaction_id, 0) # << >>
        => ~verifyIntegrity(chain)

\* a step in which addEntry or verifyAndAdd ran
AppendedNow ==
    /\ nCalls' = nCalls + 1
    /\ ledgerRet'.op \in { "addEntry", "verifyAndAdd" }

\* C39: freeze on mismatch.  Once verifyIntegrity() is false because an entry
\* was altered, it stays false after any further append or verifyAndAppend
\* call (appending never repairs the chain), and every later verifyAndAppend
\* returns ERR_CHAIN_MISMATCH without adding an entry, until the altered
\* entry is restored.
C39_FrozenOnMismatch ==
    [][ Altered /\ ~verifyIntegrity(chain) /\ AppendedNow =>
          /\ ~verifyIntegrity(chain')
          /\ ledgerRet'.op = "verifyAndAdd" =>
                /\ ~ledgerRet'.ok
                /\ ledgerRet'.reason = "ERR_CHAIN_MISMATCH"
                /\ chain' = chain ]_vars

\* a plain append onto a chain whose first appended entry is altered: one
\* entry more, and the chain is still broken
C39_Witness ==
    /\ Altered
    /\ ledgerRet.op = "addEntry"
    /\ ledgerRet.during # NoTamper
    /\ ledgerRet.during[1].at < Len(ledgerRet.before)
    /\ ~verifyIntegrity(ledgerRet.before)
    /\ Len(chain) = Len(ledgerRet.before) + 1
    /\ ~verifyIntegrity(chain)

\* the user_ids evaluated so far with a profile that is not BLOCKED
UsersScored ==
    { log[i].tx.user_id : i \in { k \in 1..Len(log) : log[k].account_status # "BLOCKED" } }

\* C40: in any engine on which fewer than 5 distinct user_ids have been
\* evaluated with a non-BLOCKED profile, no result has coordinated_attack =
\* true and no score is amplified by 1.25, however many transactions those
\* users submit.
C40_NoClusterUnderFiveUsers ==
    Returned /\ Cardinality(UsersScored) < 5 =>
        /\ ~result.coordinated_attack
        /\ ~CodePresent(result.reasoning, "ERR_COORDINATED_ATTACK")
        /\ (call.profile.account_status # "BLOCKED" /\ ~result.escalation_override) =>
               result.final_risk_score =
                   (IF MultipliedSum(result, call.profile) > 100 THEN 100
                    ELSE MultipliedSum(result, call.profile))

\* five payments of the same amount in the same minute by four users
C40_Witness ==
    /\ Returned /\ workload = "cluster"
    /\ Len(log) = 5
    /\ Cardinality(UsersScored) = 4
    /\ \A i \in 1..5 : log[i].tx.amount = call.tx.amount /\ log[i].tx.timestamp = call.tx.timestamp
    /\ ~result.coordinated_attack

====
